---- MODULE Spec2Model ----
(***************************************************************************)
(* Model of the CP transform layer of ConNL_dev (app/etl_central/assets):  *)
(* the amount normalizer and numeric parser, the two code extractors, and  *)
(* the three transforms (balance, egresos, ingresos); and of the load      *)
(* layer of the same assets (load, single_upsert, bulk_overwrite); of the  *)
(* pipelines and their run_* wrappers (app/etl_central/pipelines); and of  *)
(* the Lambda entry point (lambda_handler.py).                             *)
(*                                                                         *)
(* Text is a sequence of one-character strings, so that strip, replace,    *)
(* prefix tests and the regular expressions of the source are computed,    *)
(* not assumed.  Characters outside ASCII are named tokens (NBSP, UMINUS). *)
(* A cell of a grid is a record with a kind: text, number, None or NaN.    *)
(* A pandas null in a result (None or NaN) is the one value None.          *)
(***************************************************************************)
EXTENDS Integers, Sequences, FiniteSets, TLC

VARIABLES pc, dataset, grid, yr, rng, result, raw, amount,
          table, records, load_method, calls, db_error, run

vars == <<pc, dataset, grid, yr, rng, result, raw, amount,
          table, records, load_method, calls, db_error, run>>


(***************************************************************************)
(* Cells and characters                                                    *)
(***************************************************************************)
None == [kind |-> "none"]
NaN == [kind |-> "nan"]
S(t) == [kind |-> "str", text |-> t]
Num(n) == [kind |-> "num", num |-> n]

NBSP == "NBSP"
NNBSP == "NNBSP"
UMINUS == "U2212"

DigitSeq == <<"0", "1", "2", "3", "4", "5", "6", "7", "8", "9">>
UpperSeq == <<"A", "B", "C", "D", "E", "F", "G", "H", "I", "J", "K", "L", "M",
              "N", "O", "P", "Q", "R", "S", "T", "U", "V", "W", "X", "Y", "Z",
              "O_ACUTE">>
LowerSeq == <<"a", "b", "c", "d", "e", "f", "g", "h", "i", "j", "k", "l", "m",
              "n", "o", "p", "q", "r", "s", "t", "u", "v", "w", "x", "y", "z",
              "o_acute">>

Range(s) == {s[i] : i \in 1..Len(s)}
Digit == Range(DigitSeq)
AsciiUpper == Range(SubSeq(UpperSeq, 1, 26))
AsciiLower == Range(SubSeq(LowerSeq, 1, 26))
\* \w of a Python str pattern: letters (accented ones too), digits, underscore
WordChar == Range(UpperSeq) \cup Range(LowerSeq) \cup Digit \cup {"_"}
\* str.isspace(), and \s of a Python str pattern
Space == {" ", "TAB", "LF", NBSP, NNBSP}

IsSpace(c) == c \in Space

LowerOf == [c \in Range(UpperSeq) |-> LowerSeq[CHOOSE i \in 1..Len(UpperSeq) : UpperSeq[i] = c]]
UpperOf == [c \in Range(LowerSeq) |-> UpperSeq[CHOOSE i \in 1..Len(LowerSeq) : LowerSeq[i] = c]]

LowerChar(c) == IF c \in DOMAIN LowerOf THEN LowerOf[c] ELSE c

UpperChar(c) == IF c \in DOMAIN UpperOf THEN UpperOf[c] ELSE c

Lower(s) == [i \in 1..Len(s) |-> LowerChar(s[i])]

DigitVal(c) == (CHOOSE i \in 1..10 : DigitSeq[i] = c) - 1

RECURSIVE DigitsVal(_)
DigitsVal(ds) ==
    IF ds = <<>> THEN 0
    ELSE 10 * DigitsVal(SubSeq(ds, 1, Len(ds) - 1)) + DigitVal(ds[Len(ds)])

RECURSIVE NatToStr(_)
NatToStr(n) ==
    IF n < 10 THEN <<DigitSeq[n + 1]>>
    ELSE NatToStr(n \div 10) \o <<DigitSeq[(n % 10) + 1]>>

IntToStr(n) == IF n < 0 THEN <<"-">> \o NatToStr(-n) ELSE NatToStr(n)

\* f"{n:02d}"
TwoDigits(n) == IF n < 10 THEN <<"0">> \o NatToStr(n) ELSE NatToStr(n)

FirstNonSpace(s) ==
    IF s # <<>> /\ ~IsSpace(s[1]) THEN 1
    ELSE IF \E i \in 1..Len(s) : ~IsSpace(s[i])
    THEN CHOOSE i \in 1..Len(s) :
            /\ ~IsSpace(s[i])
            /\ \A j \in 1..(i - 1) : IsSpace(s[j])
    ELSE Len(s) + 1

LastNonSpace(s) ==
    IF s # <<>> /\ ~IsSpace(s[Len(s)]) THEN Len(s)
    ELSE IF \E i \in 1..Len(s) : ~IsSpace(s[i])
    THEN CHOOSE i \in 1..Len(s) :
            /\ ~IsSpace(s[i])
            /\ \A j \in (i + 1)..Len(s) : IsSpace(s[j])
    ELSE 0

\* str.strip()
Strip(s) == SubSeq(s, FirstNonSpace(s), LastNonSpace(s))

\* str.replace(c, "")
Remove(s, cs) == SelectSeq(s, LAMBDA c : c \notin cs)

\* str.replace(a, b) for single characters
Replace(s, a, b) == [i \in 1..Len(s) |-> IF s[i] = a THEN b ELSE s[i]]

StartsWith(s, p) == Len(s) >= Len(p) /\ SubSeq(s, 1, Len(p)) = p
EndsWith(s, p) == Len(s) >= Len(p) /\ SubSeq(s, Len(s) - Len(p) + 1, Len(s)) = p

\* s[1:-1]
Inner(s) == SubSeq(s, 2, Len(s) - 1)
\* s[:-1]
ButLast(s) == SubSeq(s, 1, Len(s) - 1)

\* pd.isna of a scalar
isna(v) == v.kind \in {"none", "nan"}

\* str(v) of a cell
PyStr(v) ==
    CASE v.kind = "str" -> v.text
      [] v.kind = "num" -> IntToStr(v.num)
      [] v.kind = "none" -> <<"N", "o", "n", "e">>
      [] v.kind = "nan" -> <<"n", "a", "n">>

(***************************************************************************)
(* helpers.py: amount normalizer and numeric parser                        *)
(***************************************************************************)
NormalizeParenKept(val) ==
    IF isna(val) THEN None
    ELSE LET s0 == Strip(PyStr(val)) IN
         IF s0 = <<>> \/ Lower(s0) = <<"n", "a", "n">> THEN None
         ELSE LET s1 == Replace(s0, UMINUS, "-")
                  s3 == IF EndsWith(s1, <<"-">>) /\ ~StartsWith(s1, <<"-">>)
                        THEN <<"-">> \o Strip(ButLast(s1))
                        ELSE s1
              IN S(s3)

_normalize_amount_for_cp(val) ==
    IF isna(val) THEN None
    ELSE LET s0 == Strip(PyStr(val)) IN
         IF s0 = <<>> \/ Lower(s0) = <<"n", "a", "n">> THEN None
         ELSE LET s1 == Replace(s0, UMINUS, "-")
                  s2 == IF StartsWith(s1, <<"(">>) /\ EndsWith(s1, <<")">>)
                        THEN <<"-">> \o Strip(Inner(s1))
                        ELSE s1
                  s3 == IF EndsWith(s2, <<"-">>) /\ ~StartsWith(s2, <<"-">>)
                        THEN <<"-">> \o Strip(ButLast(s2))
                        ELSE s2
              IN S(s3)

\* float(s) over the characters of the model: surrounding whitespace, a sign,
\* then decimal digits (a number) or the letters nan (the float NaN);
\* anything else is the ValueError that clean_amount turns into None.
\* A decimal point, an exponent, '_' and 'inf' are not in the modelled alphabet.
ParseFloat(s) ==
    LET t == Strip(s)
        signed == t # <<>> /\ t[1] \in {"-", "+"}
        body == IF signed THEN SubSeq(t, 2, Len(t)) ELSE t
        sign == IF signed /\ t[1] = "-" THEN -1 ELSE 1
    IN  IF body # <<>> /\ \A i \in 1..Len(body) : body[i] \in Digit
        THEN Num(sign * DigitsVal(body))
        ELSE IF Lower(body) = <<"n", "a", "n">> THEN NaN
        ELSE None

clean_amount(v) ==
    IF isna(v) THEN None
    ELSE LET s0 == Strip(PyStr(v)) IN
         IF s0 = <<>> \/ Lower(s0) = <<"n", "a", "n">> THEN None
         ELSE ParseFloat(Remove(s0, {NBSP, NNBSP, " ", "$", ","}))

\* lambda v: None if pd.isna(v) else v
NanToNone(v) == IF isna(v) THEN None ELSE v

_normalize_then_clean(x) == clean_amount(_normalize_amount_for_cp(x))

(***************************************************************************)
(* helpers.py, egresos_detallado_cp.py: code extractors                    *)
(***************************************************************************)
\* ^(A[123]|B[12]|C[12]|E[12]|F[12]|G[12])\.  matched at the start of t
MatchCodeA(t) ==
    /\ Len(t) >= 3
    /\ \/ t[1] = "A" /\ t[2] \in {"1", "2", "3"}
       \/ t[1] \in {"B", "C", "E", "F", "G"} /\ t[2] \in {"1", "2"}
    /\ t[3] = "."

\* group 2 of ...\.\s*(.*) : \s* takes all whitespace after the period, and
\* .* runs to the end of the line ('.' does not match a line feed)
LabelA(t) ==
    LET rest == SubSeq(t, 4, Len(t))
        body == SubSeq(rest, FirstNonSpace(rest), Len(rest))
        stop == IF \E i \in 1..Len(body) : body[i] = "LF"
                THEN (CHOOSE i \in 1..Len(body) :
                        body[i] = "LF" /\ \A j \in 1..(i - 1) : body[j] # "LF") - 1
                ELSE Len(body)
    IN  SubSeq(body, 1, stop)

\* returns <<code, sublabel>>
extraer_codigo_y_sublabel(texto) ==
    IF MatchCodeA(texto)
    THEN <<S(SubSeq(texto, 1, 2)), S(LabelA(texto))>>
    ELSE <<None, S(texto)>>

(***************************************************************************)
(* pandas helpers                                                          *)
(***************************************************************************)
\* the elements of s at the positions in I, in order
Pick(s, I) ==
    [k \in 1..Cardinality(I) |->
        s[CHOOSE i \in I : Cardinality({j \in I : j < i}) = k - 1]]

\* drop_duplicates(subset=key, keep="last"); keys[i] is the key of row i
DropDuplicatesKeepLast(s, keys) ==
    Pick(s, {i \in 1..Len(s) : \A j \in (i + 1)..Len(s) : keys[j] # keys[i]})

\* drop_duplicates(subset=key), keep="first" being the default
DropDuplicates(s, keys) ==
    Pick(s, {i \in 1..Len(s) : \A j \in 1..(i - 1) : keys[j] # keys[i]})

\* s[mask]: the rows of s whose entry of the boolean mask is true, in order
Filter(s, mask) == Pick(s, {i \in 1..Len(s) : mask[i]})

RECURSIVE Concat(_)
Concat(ss) == IF ss = <<>> THEN <<>> ELSE Head(ss) \o Concat(Tail(ss))

Ok(rows) == [status |-> "ok", error |-> "", rows |-> rows]
Raise(error) == [status |-> "raise", error |-> error, rows |-> <<>>]
Idle == [status |-> "idle", error |-> "", rows |-> <<>>]

\* no pipeline is running
NoRun == [pipeline |-> ""]

\* pd.DataFrame(columns=[...]): a frame of no rows that carries its columns
EmptyFrame(columns) ==
    [status |-> "ok", error |-> "", rows |-> <<>>, columns |-> columns]

\* a column list that leaves the key out
ColumnsWithoutKey ==
    {"concept", "sublabel", "year_quarter", "full_date", "type", "amount"}

\* the columns of the empty result of transform_cp_data
empty_cp_cols ==
    {"surrogate_key", "concept", "sublabel",
     "year_quarter", "full_date", "type", "amount"}

\* the columns of the empty result of transform_egresos_detallado_cp_data
\* ("Ampliaciones/Reducciones" is written Ampliaciones_Reducciones here)
empty_egresos_cols ==
    {"surrogate_key", "Codigo", "Concepto",
     "Aprobado", "Ampliaciones_Reducciones", "Modificado",
     "Devengado", "Pagado", "Subejercicio",
     "Fecha", "Cuarto", "Seccion"}

empty_raw_cols ==
    {"surrogate_key", "concepto",
     "estimado", "ampliaciones_reducciones", "modificado",
     "devengado", "recaudado", "diferencia",
     "clave_primaria", "clave_secundaria",
     "fecha", "cuarto", "seccion"}

\* one key drawn for the whole frame instead of one for each row
WithOneKeyPerRun(rows, rng0) ==
    [i \in 1..Len(rows) |-> [surrogate_key |-> rng0] @@ rows[i]]

\* _generate_surrogate_key / generate_truly_unique_key: 32 fresh random bytes.
\* The entropy source is a supply of tokens that are never handed out twice;
\* rng counts the tokens drawn so far.

WithSurrogateKeys(rows, rng0) ==
    [i \in 1..Len(rows) |-> [surrogate_key |-> rng0 + i - 1] @@ rows[i]]

(***************************************************************************)
(* balance_presupuestario_cp.py: transform_cp_data                         *)
(* A grid row is <<c0, c1, c2, c3, c4>> (the F4 BAP sheet: text in column  *)
(* 1, amounts in columns 2..4); TLA+ position k + 1 is column k.           *)
(***************************************************************************)
Txt_CP == <<"_", "C", "P">>
\* the first day of the year in place of the last
Txt_0101 == <<"-", "0", "1", "-", "0", "1">>
Txt_1231 == <<"-", "1", "2", "-", "3", "1">>

amount_cols == <<"estimated_or_approved", "devengado", "recaudado_pagado">>

BalanceCode(row) == SubSeq(PyStr(row[2]), 1, 2)

\* keep="last" in place of keep="first"
drop_duplicates_keep_last(df_codes) ==
    DropDuplicatesKeepLast(df_codes,
        [i \in 1..Len(df_codes) |-> BalanceCode(df_codes[i])])

\* df_codes.drop_duplicates(subset="code", keep="first")
drop_duplicates_by_code(df_codes) ==
    DropDuplicates(df_codes,
        [i \in 1..Len(df_codes) |-> BalanceCode(df_codes[i])])

\* What df[["concept", "sublabel"]] = s.apply(...) does when s has no rows
\* (apply() then answers an empty Series, not a two-column frame) is decided
\* by the installed pandas, which the repository does not pin: releases
\* from 1.5 on raise ValueError("Columns must be same length as key"),
\* earlier ones add two empty columns and go on.
SetitemOfEmptyApply == {"raises", "assigns"}

transform_cp_data(df, year, rng0, setitem) ==
    IF df = <<>> THEN EmptyFrame(empty_cp_cols)
    ELSE
    LET year_quarter == IntToStr(year) \o Txt_CP
        full_date == IntToStr(year) \o Txt_1231
        \* 1) keep only detailed codes
        mask == [i \in 1..Len(df) |-> MatchCodeA(PyStr(df[i][2]))]
        df_codes == Filter(df, mask)
        \* 2) deduplicate by code
        df_unique == drop_duplicates_by_code(df_codes)
        \* 4), 5), 8) per row and amount column
        Long(row, c) ==
            LET cs == extraer_codigo_y_sublabel(PyStr(row[2])) IN
            [concept |-> cs[1],
             sublabel |-> cs[2],
             year_quarter |-> S(year_quarter),
             full_date |-> S(full_date),
             type |-> amount_cols[c],
             amount |-> NanToNone(clean_amount(_normalize_amount_for_cp(row[c + 2])))]
        \* 6) melt: all rows of the first amount column, then of the second, ...
        df_long == Concat([c \in 1..3 |->
                        [i \in 1..Len(df_unique) |-> Long(df_unique[i], c)]])
    IN  \* 2) a column 1 that holds no text at all is a float column, and
        \* .str on a float column raises
        IF \A i \in 1..Len(df) : df[i][2].kind \in {"nan", "num"}
        THEN Raise("AttributeError")
        ELSE IF df_unique = <<>> /\ setitem = "raises" THEN Raise("ValueError")
        ELSE Ok(WithSurrogateKeys(df_long, rng0))

(***************************************************************************)
(* egresos_detallado_cp.py                                                 *)
(* A grid row is <<c0, c1, ..., c7>> (the F6a COG sheet: concept in column *)
(* 1, amounts in columns 2..7); df[i] is grid row i - 1 of the source.     *)
(***************************************************************************)
\* the first position >= i of s that holds no whitespace (Len(s) + 1 if none)
SkipSpace(s, i) ==
    IF \E k \in i..Len(s) : ~IsSpace(s[k])
    THEN CHOOSE k \in i..Len(s) :
            ~IsSpace(s[k]) /\ \A j \in i..(k - 1) : IsSpace(s[j])
    ELSE Len(s) + 1

\* the literal lit stands at position i of s
LitAt(s, i, lit) == i + Len(lit) - 1 <= Len(s) /\ SubSeq(s, i, i + Len(lit) - 1) = lit

\* the end of the longest run of characters of cs starting at i (i - 1 if none)
RunEnd(s, i, cs) ==
    IF i <= Len(s) /\ s[i] \in cs
    THEN CHOOSE k \in i..Len(s) :
            /\ \A j \in i..k : s[j] \in cs
            /\ (k = Len(s) \/ s[k + 1] \notin cs)
    ELSE i - 1

\* re.match(r"^\s*([A-Za-z])([0-9]+)\)", str(texto))
extract_codigo(texto) ==
    LET t == PyStr(texto)
        a == SkipSpace(t, 1)
        e == RunEnd(t, a + 1, Digit)
    IN  IF /\ a <= Len(t)
           /\ t[a] \in AsciiUpper \cup AsciiLower
           /\ e >= a + 1
           /\ e + 1 <= Len(t)
           /\ t[e + 1] = ")"
        THEN S(<<UpperChar(t[a])>> \o SubSeq(t, a + 1, e))
        ELSE None

\* the literal parts of the pattern ^\s*II\.\s*Gasto Etiquetado
HeaderII ==
    [II |-> <<"I", "I", ".">>,
     Gasto_Etiquetado |->
        <<"G", "a", "s", "t", "o", " ", "E", "t", "i", "q", "u", "e", "t", "a",
          "d", "o">>]

\* the pattern without its second I: ^\s*I, which the header of Section I
\* matches as well
IsAnySectionHeader(t) == LitAt(t, SkipSpace(t, 1), <<"I">>)

\* str.contains(r"^\s*II\.\s*Gasto Etiquetado", regex=True) on the text t
IsGastoEtiquetadoHeader(t) ==
    LET a == SkipSpace(t, 1) IN
    /\ LitAt(t, a, HeaderII.II)
    /\ LitAt(t, SkipSpace(t, a + 3), HeaderII.Gasto_Etiquetado)

SectionIStart == 8

columnas ==
    <<"Concepto", "Aprobado", "Ampliaciones_Reducciones", "Modificado",
      "Devengado", "Pagado", "Subejercicio">>

\* the slice taken one row early: df.iloc[r0 - 1:r1, 1:8]
TablaFromRowBefore(df, r0, r1) ==
    [k \in 1..(IF r1 > r0 - 1 /\ r0 >= 1 THEN r1 - r0 + 1 ELSE 0) |->
        [c \in Range(columnas) |->
            df[r0 - 1 + k][1 + CHOOSE j \in 1..7 : columnas[j] = c]]]

\* pd.DataFrame(df.iloc[r0:r1, 1:8].values, columns=columnas); r0, r1 count
\* rows from 0 as the source does
Tabla(df, r0, r1) ==
    [k \in 1..(IF r1 > r0 THEN r1 - r0 ELSE 0) |->
        [c \in Range(columnas) |->
            df[r0 + k][1 + CHOOSE j \in 1..7 : columnas[j] = c]]]

\* duplicates told by the whole concept text: subset="Concepto"
EgresosConcepto(row) == row.Concepto

\* drop_duplicates(subset="Codigo")
EgresosCodigo(row) == row.Codigo

\* the section table with its six amounts parsed to numbers
ProcesarTablaParsed(df_tabla, fecha, cuarto) ==
    LET coded == [i \in 1..Len(df_tabla) |->
                    [c \in Range(columnas) |->
                        IF c = "Concepto" THEN df_tabla[i][c]
                        ELSE _normalize_then_clean(df_tabla[i][c])]
                    @@ [Codigo |-> extract_codigo(df_tabla[i].Concepto)]]
        notna == Filter(coded, [i \in 1..Len(coded) |-> ~isna(coded[i].Codigo)])
        kept == DropDuplicates(notna,
                    [i \in 1..Len(notna) |-> EgresosCodigo(notna[i])])
    IN  [i \in 1..Len(kept) |-> kept[i] @@ [Fecha |-> fecha, Cuarto |-> cuarto]]

procesar_tabla(df_tabla, fecha, cuarto) ==
    LET coded == [i \in 1..Len(df_tabla) |->
                    df_tabla[i] @@ [Codigo |-> extract_codigo(df_tabla[i].Concepto)]]
        notna == Filter(coded, [i \in 1..Len(coded) |-> ~isna(coded[i].Codigo)])
        kept == DropDuplicates(notna,
                    [i \in 1..Len(notna) |-> EgresosCodigo(notna[i])])
    IN  [i \in 1..Len(kept) |-> kept[i] @@ [Fecha |-> fecha, Cuarto |-> cuarto]]

WithSeccion(rows, seccion) ==
    [i \in 1..Len(rows) |-> rows[i] @@ [Seccion |-> seccion]]

transform_egresos_detallado_cp_data(df, year, rng0) ==
    IF df = <<>> THEN EmptyFrame(empty_egresos_cols)
    ELSE
    LET fecha == S(IntToStr(year) \o Txt_1231)
        cuarto == S(<<"C", "P">>)
        idx_ii_candidates ==
            {i \in 1..Len(df) : IsGastoEtiquetadoHeader(PyStr(df[i][2]))}
        \* idxmax(): the row number, from 0, of the first candidate
        idx_ii_header ==
            (CHOOSE i \in idx_ii_candidates :
                \A j \in idx_ii_candidates : i <= j) - 1
        tbl_I == Tabla(df, SectionIStart, idx_ii_header)
        fila_inicio_II == idx_ii_header + 1
        vacias == {r \in fila_inicio_II..(Len(df) - 1) :
                        Strip(PyStr(df[r + 1][2])) = <<>>}
        fila_fin_II ==
            IF vacias # {}
            THEN CHOOSE r \in vacias : \A q \in vacias : r <= q
            ELSE Len(df)
        tbl_II == Tabla(df, fila_inicio_II, fila_fin_II)
        df_I == WithSeccion(procesar_tabla(tbl_I, fecha, cuarto), "I")
        df_II == WithSeccion(procesar_tabla(tbl_II, fecha, cuarto), "II")
    IN  IF idx_ii_candidates = {} THEN Raise("ValueError")
        ELSE Ok(WithSurrogateKeys(df_I \o df_II, rng0))

(***************************************************************************)
(* helpers.py: section II bounds of the ingresos sheet                     *)
(***************************************************************************)
\* the literal lit (given in lower case) stands at position i, ignoring case
LitAtCI(s, i, lit) ==
    /\ i + Len(lit) - 1 <= Len(s)
    /\ \A k \in 1..Len(lit) : LowerChar(s[i + k - 1]) = lit[k]

\* w1\s+w2\s+...wn matched from position i, ignoring case: the position of
\* the last character matched, or 0 when there is no match at i
RECURSIVE PhraseEnd(_, _, _)
PhraseEnd(s, i, words) ==
    IF ~LitAtCI(s, i, Head(words)) THEN 0
    ELSE LET e == i + Len(Head(words)) - 1
             sp == RunEnd(s, e + 1, Space)
         IN  IF Len(words) = 1 THEN e
             ELSE IF sp < e + 1 THEN 0
             ELSE PhraseEnd(s, sp + 1, Tail(words))

W_transferencias ==
    <<"t", "r", "a", "n", "s", "f", "e", "r", "e", "n", "c", "i", "a", "s">>
W_federales == <<"f", "e", "d", "e", "r", "a", "l", "e", "s">>
W_etiquetadas == <<"e", "t", "i", "q", "u", "e", "t", "a", "d", "a", "s">>
W_ingresos == <<"i", "n", "g", "r", "e", "s", "o", "s">>
W_derivados == <<"d", "e", "r", "i", "v", "a", "d", "o", "s">>
W_de == <<"d", "e">>
W_financiamientos ==
    <<"f", "i", "n", "a", "n", "c", "i", "a", "m", "i", "e", "n", "t", "o",
      "s">>
W_al == <<"a", "l">>
Txt_ii_lower == <<"i", "i", ".">>

\* re.compile(r"^\s*II\.\s*$", re.IGNORECASE).search(val)
rx_roman_ii(val) ==
    LET a == SkipSpace(val, 1) IN
    /\ LitAtCI(val, a, Txt_ii_lower)
    /\ SkipSpace(val, a + 3) = Len(val) + 1

\* re.compile(r"transferencias\s+federales\s+etiquetadas[:\.]?$", re.IGNORECASE)
rx_ii_title(val) ==
    \E i \in 1..Len(val) :
        LET e == PhraseEnd(val, i, <<W_transferencias, W_federales,
            W_etiquetadas>>)
            f == IF e > 0 /\ e < Len(val) /\ val[e + 1] \in {":", "."}
                 THEN e + 1 ELSE e
        IN  /\ e > 0
            /\ \/ f = Len(val) \/ e = Len(val)
               \/ (f = Len(val) - 1 /\ val[Len(val)] = "LF")
               \/ (e = Len(val) - 1 /\ val[Len(val)] = "LF")

\* re.compile(r"ingresos\s+derivados\s+de\s+financiamientos", re.IGNORECASE)
rx_financ(val) ==
    \E i \in 1..Len(val) :
        PhraseEnd(val, i, <<W_ingresos, W_derivados, W_de,
                            W_financiamientos>>) > 0

\* re.compile(r"derivados\s+de\s+financiamientos", re.IGNORECASE)
rx_financ_short(val) ==
    \E i \in 1..Len(val) :
        PhraseEnd(val, i, <<W_derivados, W_de, W_financiamientos>>) > 0

NoRow == -1

Min(a, b) == IF a < b THEN a ELSE b

NCols(df) == IF df = <<>> THEN 0 ELSE Len(df[1])

\* rx.search(val) for the pattern named rx
rx_search(rx, val) ==
    CASE rx = "rx_roman_ii" -> rx_roman_ii(val)
      [] rx = "rx_ii_title" -> rx_ii_title(val)
      [] rx = "rx_financ" -> rx_financ(val)
      [] rx = "rx_financ_short" -> rx_financ_short(val)

\* the first row number r >= start_row (from 0) with a cell, among the first
\* max_scan_cols columns, whose stripped text matches one of the patterns
_first_match_row(df, patterns, max_scan_cols, start_row) ==
    LET hit == {r \in start_row..(Len(df) - 1) :
                    \E c \in 1..Min(max_scan_cols, NCols(df)) :
                        \E rx \in patterns :
                            rx_search(rx, Strip(PyStr(df[r + 1][c])))}
    IN  IF hit = {} THEN NoRow
        ELSE CHOOSE r \in hit : \A q \in hit : r <= q

TitleScanCols == 8
RomanScanCols == 6

\* the bare 'II.' preferred to the title
BoundsRomanFirst(df) ==
    LET by_roman == _first_match_row(df, {"rx_roman_ii"}, RomanScanCols, 0)
        start_ii == IF by_roman # NoRow THEN by_roman
                    ELSE _first_match_row(df, {"rx_ii_title"}, TitleScanCols, 0)
        end_ii == IF start_ii = NoRow THEN NoRow
                  ELSE _first_match_row(df, {"rx_financ", "rx_financ_short"},
                                        TitleScanCols, start_ii + 1)
    IN  <<start_ii, end_ii>>

\* <<start_ii, end_ii>>, NoRow standing for None
_find_section_ii_bounds(df) ==
    LET by_title == _first_match_row(df, {"rx_ii_title"}, TitleScanCols, 0)
        start_ii == IF by_title # NoRow THEN by_title
                    ELSE _first_match_row(df, {"rx_roman_ii"}, RomanScanCols, 0)
        end_ii == IF start_ii = NoRow THEN NoRow
                  ELSE _first_match_row(df, {"rx_financ", "rx_financ_short"},
                                        TitleScanCols, start_ii + 1)
    IN  <<start_ii, end_ii>>

(***************************************************************************)
(* ingresos_detallado_cp.py                                                *)
(* A grid row is <<c0, c1, ..., c7>> (the F5 EAI sheet).                   *)
(***************************************************************************)
_MONTHS ==
    <<<<"e", "n", "e", "r", "o">>,
      <<"f", "e", "b", "r", "e", "r", "o">>,
      <<"m", "a", "r", "z", "o">>,
      <<"a", "b", "r", "i", "l">>,
      <<"m", "a", "y", "o">>,
      <<"j", "u", "n", "i", "o">>,
      <<"j", "u", "l", "i", "o">>,
      <<"a", "g", "o", "s", "t", "o">>,
      <<"s", "e", "p", "t", "i", "e", "m", "b", "r", "e">>,
      <<"o", "c", "t", "u", "b", "r", "e">>,
      <<"n", "o", "v", "i", "e", "m", "b", "r", "e">>,
      <<"d", "i", "c", "i", "e", "m", "b", "r", "e">>>>

\* " ".join(cells)
RECURSIVE JoinSpace(_)
JoinSpace(ts) ==
    IF ts = <<>> THEN <<>>
    ELSE IF Len(ts) = 1 THEN ts[1]
    ELSE ts[1] \o <<" ">> \o JoinSpace(Tail(ts))

\* al\s+(\d{1,2})\s+de\s+(\w+)\s+de\s+(\d{4}) matched from position i,
\* ignoring case: <<day, month word, year>> as texts, or <<>> when no match
DateAt(s, i) ==
    LET s1 == RunEnd(s, i + 2, Space)
        d1 == RunEnd(s, s1 + 1, Digit)
        s2 == RunEnd(s, d1 + 1, Space)
        s3 == RunEnd(s, s2 + 3, Space)
        w1 == RunEnd(s, s3 + 1, WordChar)
        s4 == RunEnd(s, w1 + 1, Space)
        s5 == RunEnd(s, s4 + 3, Space)
        y1 == RunEnd(s, s5 + 1, Digit)
    IN  IF /\ LitAtCI(s, i, W_al)
           /\ s1 >= i + 2
           /\ d1 - s1 \in {1, 2}
           /\ s2 >= d1 + 1
           /\ LitAtCI(s, s2 + 1, W_de)
           /\ s3 >= s2 + 3
           /\ w1 >= s3 + 1
           /\ s4 >= w1 + 1
           /\ LitAtCI(s, s4 + 1, W_de)
           /\ s5 >= s4 + 3
           /\ y1 - s5 >= 4
        THEN <<SubSeq(s, s1 + 1, d1), SubSeq(s, s3 + 1, w1), SubSeq(s, s5 + 1,
               s5 + 4)>>
        ELSE <<>>

DateHeaderRows == 8
DateHeaderCols == 12

\* the fecha text ("" when no header row states a date); cuarto is always CP
_extract_fecha_y_cuarto(df) ==
    LET txt == [r \in 1..Min(DateHeaderRows, Len(df)) |->
                  JoinSpace([c \in 1..Min(DateHeaderCols, NCols(df)) |->
                                Strip(PyStr(df[r][c]))])]
        hits == [r \in DOMAIN txt |->
                    {i \in 1..Len(txt[r]) : DateAt(txt[r], i) # <<>>}]
        rows == {r \in DOMAIN txt : hits[r] # {}}
    IN  IF rows = {} THEN <<>>
        ELSE LET r == CHOOSE x \in rows : \A q \in rows : x <= q
                 i == CHOOSE x \in hits[r] : \A q \in hits[r] : x <= q
                 m == DateAt(txt[r], i)
                 d == DigitsVal(m[1])
                 mon == IF \E k \in 1..12 : _MONTHS[k] = Lower(m[2])
                        THEN CHOOSE k \in 1..12 : _MONTHS[k] = Lower(m[2])
                        ELSE 12
                 y == DigitsVal(m[3])
             IN  IntToStr(y) \o <<"-">> \o TwoDigits(mon) \o <<"-">> \o TwoDigits(d)

\* ^[A-Z]\.\s*
rx_hdr(t) == Len(t) >= 2 /\ t[1] \in AsciiUpper /\ t[2] = "."

\* ^[a-z]\d+\)
rx_det(t) ==
    LET e == RunEnd(t, 2, Digit) IN
    /\ Len(t) >= 3
    /\ t[1] \in AsciiLower
    /\ e >= 2
    /\ e + 1 <= Len(t)
    /\ t[e + 1] = ")"

ConceptSearchCols == 16

ColumnScore(df, c) ==
    Cardinality({r \in 1..Len(df) : rx_hdr(Strip(PyStr(df[r][c + 1])))})
        + Cardinality({r \in 1..Len(df) : rx_det(Strip(PyStr(df[r][c + 1])))})

\* the scan keeps the last column whose score is not beaten
DetectLastBest(df) ==
    LET cols == 0..(Min(ConceptSearchCols, NCols(df)) - 1)
        score == [c \in cols |-> ColumnScore(df, c)]
    IN  IF cols = {} THEN 1
        ELSE CHOOSE c \in cols :
                /\ \A q \in cols : score[q] <= score[c]
                /\ \A q \in cols : q > c => score[q] < score[c]

\* the scan keeps the first column (from 0) whose score beats all before it
_detect_concept_col(df) ==
    LET cols == 0..(Min(ConceptSearchCols, NCols(df)) - 1)
        score == [c \in cols |-> ColumnScore(df, c)]
    IN  IF cols = {} THEN 1
        ELSE CHOOSE c \in cols :
                /\ \A q \in cols : score[q] <= score[c]
                /\ \A q \in cols : q < c => score[q] < score[c]

MaxSpan == 10
MinRatioPercent == 20
AmountRoles == 6
NoCol == -1

\* a column qualifies as soon as one of its cells parses
QualifyingAnyParsed(df_section, concept_col) ==
    LET start == concept_col + 1
        end == Min(NCols(df_section), concept_col + 1 + MaxSpan)
    IN  {c \in start..(end - 1) :
            \E r \in 1..Len(df_section) :
                ~isna(_normalize_then_clean(df_section[r][c + 1]))}

\* the column numbers (from 0) right of the concept column in which at least
\* 20% of the block's cells parse, in increasing order
QualifyingCols(df_section, concept_col) ==
    LET start == concept_col + 1
        end == Min(NCols(df_section), concept_col + 1 + MaxSpan)
        parsed(c) == {r \in 1..Len(df_section) :
                        ~isna(_normalize_then_clean(df_section[r][c + 1]))}
    IN  {c \in start..(end - 1) :
            /\ Len(df_section) > 0
            /\ 100 * Cardinality(parsed(c)) >= MinRatioPercent * Len(df_section)}

\* six column numbers, NoCol filling the roles that found no column
_detect_amount_cols(df_section, concept_col) ==
    LET q == QualifyingCols(df_section, concept_col)
        nth(k) == CHOOSE c \in q : Cardinality({x \in q : x < c}) = k - 1
    IN  [k \in 1..AmountRoles |-> IF k <= Cardinality(q) THEN nth(k) ELSE NoCol]

\* the texts the row filters compare a concept with
ConceptLit ==
    [none |-> <<"N", "o", "n", "e">>,
     nan |-> <<"n", "a", "n">>,
     ingresos_de_libre_disposicion |->
        <<"i", "n", "g", "r", "e", "s", "o", "s", " ", "d", "e", " ", "l", "i",
          "b", "r", "e", " ", "d", "i", "s", "p", "o", "s", "i", "c", "i",
          "o_acute", "n">>]

\* isin(["", "nan", "None", None])
concept_blank(row) == row.concepto \in {S(<<>>), S(ConceptLit.nan), S(ConceptLit.none), None}

no_montos(row) ==
    /\ isna(row.estimado)
    /\ isna(row.ampliaciones_reducciones)
    /\ isna(row.modificado)
    /\ isna(row.devengado)
    /\ isna(row.recaudado)
    /\ isna(row.diferencia)

\* str.extract(r"^([A-Z])\.\s*") mapped to the letter and a period
clave_primaria(t) == IF rx_hdr(t) THEN S(<<t[1], ".">>) ELSE None

\* str.extract(r"^([a-z]\d+)\)")
clave_secundaria(t) == IF rx_det(t) THEN S(SubSeq(t, 1, RunEnd(t, 2, Digit))) ELSE None

\* one record per row of the block: the concept text and the six amounts,
\* normalized and parsed
BlockRows(blk, amt_idx, concept_col) ==
    [r \in 1..Len(blk) |->
        [concepto |-> S(Strip(PyStr(blk[r][concept_col + 1]))),
         montos |-> [k \in 1..AmountRoles |->
                        NanToNone(_normalize_then_clean(
                            blk[r][amt_idx[k] + 1]))]]]

WithRoles(rows, seccion) ==
    [r \in 1..Len(rows) |->
        [concepto |-> rows[r].concepto,
         estimado |-> rows[r].montos[1],
         ampliaciones_reducciones |-> rows[r].montos[2],
         modificado |-> rows[r].montos[3],
         devengado |-> rows[r].montos[4],
         recaudado |-> rows[r].montos[5],
         diferencia |-> rows[r].montos[6],
         clave_primaria |-> clave_primaria(rows[r].concepto.text),
         clave_secundaria |-> clave_secundaria(rows[r].concepto.text),
         seccion |-> seccion]]

\* blk[~(concept_blank & all_null)]
DropBlankRows(rows) ==
    Filter(rows, [r \in 1..Len(rows) |->
                    ~(concept_blank(rows[r]) /\ no_montos(rows[r]))])

\* the block's rows; raised: pick() answers a role without a column with a
\* list, and a list has no map(), so the first such role is an AttributeError
SliceWith(blk, amt_idx, seccion, concept_col) ==
    IF \E k \in 1..AmountRoles : amt_idx[k] = NoCol
    THEN [raised |-> TRUE, rows |-> <<>>]
    ELSE [raised |-> FALSE,
          rows |-> DropBlankRows(
                    WithRoles(BlockRows(blk, amt_idx, concept_col),
                              seccion))]

SliceOf(blk, seccion, concept_col) ==
    SliceWith(blk, _detect_amount_cols(blk, concept_col), seccion, concept_col)

_slice_block(df, r0, r1, seccion, concept_col) ==
    SliceOf(SubSeq(df, r0 + 1, r1), seccion, concept_col)

\* ^\s*\([A-Z]\s*=
is_total(t) ==
    LET a == SkipSpace(t, 1) IN
    /\ a + 2 <= Len(t)
    /\ t[a] = "("
    /\ t[a + 1] \in AsciiUpper
    /\ LET b == SkipSpace(t, a + 2) IN b <= Len(t) /\ t[b] = "="

ild_mask(t) == Lower(Strip(t)) = ConceptLit.ingresos_de_libre_disposicion

start_I_default == 7

\* the year-end date whenever a year is given, the header's date otherwise
FechaYearFirst(header_fecha, year) ==
    IF year # 0 THEN IntToStr(year) \o Txt_1231 ELSE header_fecha

\* year = 0 stands for year=None
FechaOf(header_fecha, year) ==
    IF header_fecha = <<>> /\ year # 0
    THEN IntToStr(year) \o Txt_1231
    ELSE header_fecha

\* Section I: rows start_I_default up to the Section II title, or to the end
FrameI(df, start_ii, concept_col) ==
    LET end_I == IF start_ii # NoRow THEN start_ii ELSE Len(df) IN
    IF start_I_default < end_I
    THEN _slice_block(df, start_I_default, end_I, "I", concept_col)
    ELSE [raised |-> FALSE, rows |-> <<>>]

\* Section II: the rows after its title, up to the financing title or the end
FrameII(df, start_ii, end_ii, concept_col) ==
    LET end_II == IF end_ii # NoRow THEN end_ii ELSE Len(df) IN
    IF start_ii # NoRow /\ start_ii + 1 < end_II
    THEN _slice_block(df, start_ii + 1, end_II, "II", concept_col)
    ELSE [raised |-> FALSE, rows |-> <<>>]

\* df_all[~(is_total | (ild_mask & no_montos) | (concept_blank & no_montos))]
DropTotalsAndTitles(both) ==
    Filter(both,
           [i \in 1..Len(both) |->
                ~(\/ is_total(both[i].concepto.text)
                  \/ ild_mask(both[i].concepto.text) /\ no_montos(both[i])
                  \/ concept_blank(both[i]) /\ no_montos(both[i]))])

WithFecha(out, fecha) ==
    [i \in 1..Len(out) |->
        out[i] @@ [fecha |-> S(fecha), cuarto |-> S(<<"C", "P">>)]]

ConcatFrames(frame_I, frame_II, fecha, rng0) ==
    IF frame_I.raised \/ frame_II.raised
    THEN Raise("AttributeError")
    ELSE Ok(WithSurrogateKeys(
                WithFecha(DropTotalsAndTitles(frame_I.rows \o frame_II.rows),
                          fecha),
                rng0))

TransformSections(df, bounds, concept_col, fecha, rng0) ==
    ConcatFrames(FrameI(df, bounds[1], concept_col),
                 FrameII(df, bounds[1], bounds[2], concept_col),
                 fecha, rng0)

transform_ingresos_detallado_cp_data(df, year, rng0) ==
    IF df = <<>> THEN EmptyFrame(empty_raw_cols)
    ELSE TransformSections(df, _find_section_ii_bounds(df),
                           _detect_concept_col(df),
                           FechaOf(_extract_fecha_y_cuarto(df), year), rng0)

(***************************************************************************)
(* Inputs of the balance transform                                         *)
(***************************************************************************)
MaxBalanceRows == 3

\* column-1 texts: the rows of test_transform_cp.py and near misses of the
\* code pattern
BalanceTxt ==
    [A_Totales |-> <<"A", ".", " ", "T", "o", "t", "a", "l", "e", "s">>,
     A1_Libre |-> <<"A", "1", ".", " ", "L", "i", "b", "r", "e">>,
     A1_Otro |-> <<"A", "1", ".", "O", "t", "r", "o", "LF", "m", "a", "s">>,
     B1_Transf |-> <<"B", "1", ".", " ", " ", "T", "r", "a", "n", "s", "f">>,
     X_NoCode |->
        <<"X", ".", " ", "N", "o", "t", " ", "a", " ", "c", "o", "d", "e">>,
     A1_NoPeriod |-> <<"A", "1", " ", "L", "i", "b", "r", "e">>,
     A4 |-> <<"A", "4", ".", " ", "F", "u", "e", "r", "a">>,
     a1_lower |-> <<"a", "1", ".", " ", "l", "i", "b", "r", "e">>,
     D1 |-> <<"D", "1", ".", " ", "F", "u", "e", "r", "a">>,
     A1_LeadingSpace |-> <<" ", "A", "1", ".", " ", "L", "i", "b", "r", "e">>]

\* amount cell texts of the three sheets
Amt ==
    [n100 |-> S(<<"1", "0", "0">>),
     n90 |-> S(<<"9", "0">>),
     n1000 |-> S(<<"1", ",", "0", "0", "0">>),
     paren50 |-> S(<<"(", "5", "0", ")">>),
     n900 |-> S(<<"9", "0", "0">>),
     n999 |-> S(<<"9", "9", "9">>),
     n40 |-> S(<<"4", "0">>),
     blank |-> S(<<>>),
     n0 |-> S(<<"0">>),
     n15 |-> S(<<"1", "5">>),
     n10 |-> S(<<"1", "0">>),
     n850 |-> S(<<"8", "5", "0">>),
     uminus25 |-> S(<<UMINUS, "2", "5">>),
     n30minus |-> S(<<"3", "0", "-">>),
     n5 |-> S(<<"5">>)]

Years == {2020, 2024}

\* the rows of test_transform_cp.py, and near misses of the code pattern
BalanceRows ==
    {<<None, S(BalanceTxt.A_Totales), Amt.n100, Amt.n90, Amt.n900>>,
     <<None, S(BalanceTxt.A1_Libre), Amt.n1000, Amt.paren50, Amt.n900>>,
     <<None, S(BalanceTxt.A1_Otro), Amt.n999, Amt.n999, Amt.n999>>,
     <<None, S(BalanceTxt.B1_Transf), None, Amt.n40, Amt.n40>>,
     <<None, S(BalanceTxt.X_NoCode), Amt.n100, Amt.n90, Amt.n900>>,
     <<NaN, NaN, NaN, NaN, NaN>>,
     <<None, S(BalanceTxt.A1_NoPeriod), Amt.n999, Amt.blank, Num(5)>>,
     <<None, S(BalanceTxt.A4), Amt.n999, Amt.n999, Amt.n999>>,
     <<None, S(BalanceTxt.a1_lower), Amt.n999, Amt.n999, Amt.n999>>,
     <<None, S(BalanceTxt.D1), Amt.n999, Amt.n999, Amt.n999>>,
     <<None, S(BalanceTxt.A1_LeadingSpace), Amt.n999, Amt.n999, Amt.n999>>}

BalanceGrids == UNION {[1..n -> BalanceRows] : n \in 0..MaxBalanceRows}

InitBalance ==
    /\ pc = "start"
    /\ dataset = "balance"
    /\ grid \in BalanceGrids
    /\ yr \in Years
    /\ rng = 0
    /\ result = Idle
    /\ raw = None
    /\ amount = None
    /\ table = <<>> /\ records = <<>> /\ load_method = ""
    /\ calls = <<>> /\ db_error = "" /\ run = NoRun

TransformCp ==
    /\ pc = "start"
    /\ dataset = "balance"
    /\ \E setitem \in SetitemOfEmptyApply :
            result' = transform_cp_data(grid, yr, rng, setitem)
    /\ rng' = rng + Len(result'.rows)
    /\ pc' = "done"
    /\ UNCHANGED <<dataset, grid, yr, raw, amount>>
    /\ UNCHANGED <<table, records, load_method, calls, db_error, run>>

(***************************************************************************)
(* Inputs of the egresos transform                                         *)
(***************************************************************************)
MaxEgresosBody == 4

\* column-1 texts of the egresos sheet
EgresosTxt ==
    [A1_Servicios |->
        <<"A", "1", ")", " ", "S", "e", "r", "v", "i", "c", "i", "o", "s">>,
     a1_otros |-> <<" ", "a", "1", ")", " ", "o", "t", "r", "o", "s">>,
     B12_Materiales |->
        <<"B", "1", "2", ")", " ", "M", "a", "t", "e", "r", "i", "a", "l", "e",
        "s">>,
     II_Gasto_Etiquetado |->
        <<"I", "I", ".", " ", "G", "a", "s", "t", "o", " ", "E", "t", "i", "q",
        "u", "e", "t", "a", "d", "o">>,
     I_Gasto_No_Etiquetado |->
        <<"I", ".", " ", "G", "a", "s", "t", "o", " ", "N", "o", " ", "E", "t",
        "i", "q", "u", "e", "t", "a", "d", "o">>,
     C1_Encabezado |->
        <<"C", "1", ")", " ", "E", "n", "c", "a", "b", "e", "z", "a", "d",
        "o">>]

EgBlankRow == <<None, Amt.blank, Amt.blank, Amt.blank, Amt.blank, Amt.blank,
                Amt.blank, Amt.blank>>
EgMarkerRow ==
    <<None, S(EgresosTxt.II_Gasto_Etiquetado), Amt.blank, Amt.blank, Amt.blank,
      Amt.blank,
      Amt.blank, Amt.blank>>
EgHeaderCodeRow == <<None, S(EgresosTxt.C1_Encabezado), Amt.n40, Amt.n0,
                     Amt.n40, Amt.n40, Amt.n40, Amt.n0>>

\* the rows of test_transform_egresos_cp.py, a lower-case duplicate of A1, a
\* row read from an empty spreadsheet line (NaN) and a title that is no code
EgresosRows ==
    {<<None, S(EgresosTxt.A1_Servicios), Amt.n100, Amt.n0, Amt.n100, Amt.n90,
       Amt.paren50, Amt.n15>>,
     <<None, S(EgresosTxt.a1_otros), Amt.n999, Amt.n999, Amt.n999, Amt.n999,
       Amt.n999, Amt.blank>>,
     <<None, S(EgresosTxt.B12_Materiales), Amt.n1000, Num(5), Amt.n900,
       Amt.n40, None, Amt.n15>>,
     EgBlankRow,
     EgMarkerRow,
     <<NaN, NaN, NaN, NaN, NaN, NaN, NaN, NaN>>,
     <<None, S(EgresosTxt.I_Gasto_No_Etiquetado), Amt.blank, Amt.blank,
       Amt.blank, Amt.blank,
       Amt.blank, Amt.blank>>}

\* rows 0..7 of the sheet: blank lines as in the test; a line item on row 7;
\* the section header on row 6 followed by a line item on row 7
EgresosHeaders ==
    {[i \in 1..8 |-> EgBlankRow],
     [i \in 1..8 |-> IF i = 8 THEN EgHeaderCodeRow ELSE EgBlankRow],
     [i \in 1..8 |-> IF i = 7 THEN EgMarkerRow
                     ELSE IF i = 8 THEN EgHeaderCodeRow ELSE EgBlankRow]}

\* full sheets, and sheets cut short inside the first 8 rows
EgresosGrids ==
    {h \o b : h \in EgresosHeaders,
              b \in UNION {[1..n -> EgresosRows] : n \in 0..MaxEgresosBody}}
        \cup {SubSeq(h, k, 8) : h \in EgresosHeaders, k \in 2..9}

InitEgresos ==
    /\ pc = "start"
    /\ dataset = "egresos"
    /\ grid \in EgresosGrids
    /\ yr \in Years
    /\ rng = 0
    /\ result = Idle
    /\ raw = None
    /\ amount = None
    /\ table = <<>> /\ records = <<>> /\ load_method = ""
    /\ calls = <<>> /\ db_error = "" /\ run = NoRun

TransformEgresos ==
    /\ pc = "start"
    /\ dataset = "egresos"
    /\ result' = transform_egresos_detallado_cp_data(grid, yr, rng)
    /\ rng' = rng + Len(result'.rows)
    /\ pc' = "done"
    /\ UNCHANGED <<dataset, grid, yr, raw, amount>>
    /\ UNCHANGED <<table, records, load_method, calls, db_error, run>>

(***************************************************************************)
(* Inputs of the ingresos transform                                        *)
(***************************************************************************)
MaxIngresosBody == 3

\* concept texts of the ingresos sheet, and the words of its date header
IngresosTxt ==
    [A_Impuestos |->
        <<"A", ".", " ", "I", "m", "p", "u", "e", "s", "t", "o", "s">>,
     a1_ISR |-> <<"a", "1", ")", " ", "I", "S", "R">>,
     II_bare |-> <<"I", "I", ".">>,
     Transferencias |->
        <<"T", "r", "a", "n", "s", "f", "e", "r", "e", "n", "c", "i", "a", "s",
        " ", "F", "e", "d", "e", "r", "a", "l", "e", "s", " ", "E", "t", "i",
        "q", "u", "e", "t", "a", "d", "a", "s">>,
     Financiamientos |->
        <<"I", "n", "g", "r", "e", "s", "o", "s", " ", "D", "e", "r", "i", "v",
        "a", "d", "o", "s", " ", "d", "e", " ", "F", "i", "n", "a", "n", "c",
        "i", "a", "m", "i", "e", "n", "t", "o", "s">>,
     Total_H |-> <<"(", "H", "=", "h", "1", "+", "h", "2", ")">>,
     ILD |->
        <<"I", "n", "g", "r", "e", "s", "o", "s", " ", "d", "e", " ", "L", "i",
        "b", "r", "e", " ", "D", "i", "s", "p", "o", "s", "i", "c", "i",
        "o_acute", "n">>,
     al |-> <<"a", "l">>,
     d31 |-> <<"3", "1">>,
     de |-> <<"d", "e">>,
     marzo |-> <<"M", "a", "r", "z", "o">>,
     y2023 |-> <<"2", "0", "2", "3">>]

InBlankRow == <<None, Amt.blank, Amt.blank, Amt.blank, Amt.blank, Amt.blank,
                Amt.blank, Amt.blank>>
InDateRow == <<None, S(IngresosTxt.al), S(IngresosTxt.d31), S(IngresosTxt.de),
               S(IngresosTxt.marzo), S(IngresosTxt.de), S(IngresosTxt.y2023),
               Amt.blank>>
InLineRow == <<None, S(IngresosTxt.A_Impuestos), Amt.n1000, Amt.n10, Amt.n1000,
               Amt.n900, Amt.n850, Amt.n100>>

\* the rows of test_transform_ingresos_cp.py (the second with its blank
\* column 3), a blank line, the section titles, a total, and the title
\* without amounts
IngresosRows ==
    {InLineRow,
     <<None, S(IngresosTxt.a1_ISR), Amt.paren50, Amt.blank, Amt.paren50,
       Amt.uminus25, Amt.n30minus, Amt.n5>>,
     InBlankRow,
     <<None, S(IngresosTxt.II_bare), Amt.blank, Amt.blank, Amt.blank,
       Amt.blank, Amt.blank, Amt.blank>>,
     <<None, S(IngresosTxt.Transferencias), Amt.blank, Amt.blank, Amt.blank,
       Amt.blank, Amt.blank, Amt.blank>>,
     <<None, S(IngresosTxt.Financiamientos), Amt.n100, Amt.n10, Amt.n100,
       Amt.n90, Amt.n90, Amt.n10>>,
     <<None, S(IngresosTxt.Total_H), Amt.n1000, Amt.n10, Amt.n1000, Amt.n900,
       Amt.n850, Amt.n100>>,
     <<None, S(IngresosTxt.ILD), Amt.blank, Amt.blank, Amt.blank, Amt.blank,
       Amt.blank, Amt.blank>>}

\* rows 0..6 of the sheet: blank lines; the statement date on row 3, one word
\* a cell as in the test; a line item on row 6
IngresosHeaders ==
    {[i \in 1..7 |-> InBlankRow],
     [i \in 1..7 |-> IF i = 4 THEN InDateRow ELSE InBlankRow],
     [i \in 1..7 |-> IF i = 7 THEN InLineRow ELSE InBlankRow]}

\* full sheets, and sheets cut short inside the first 7 rows
IngresosGrids ==
    {h \o b : h \in IngresosHeaders,
              b \in UNION {[1..n -> IngresosRows] : n \in 0..MaxIngresosBody}}
        \cup {SubSeq(h, k, 7) : h \in IngresosHeaders, k \in 2..8}

InitIngresos ==
    /\ pc = "start"
    /\ dataset = "ingresos"
    /\ grid \in IngresosGrids
    /\ yr \in Years
    /\ rng = 0
    /\ result = Idle
    /\ raw = None
    /\ amount = None
    /\ table = <<>> /\ records = <<>> /\ load_method = ""
    /\ calls = <<>> /\ db_error = "" /\ run = NoRun

TransformIngresos ==
    /\ pc = "start"
    /\ dataset = "ingresos"
    /\ result' = transform_ingresos_detallado_cp_data(grid, yr, rng)
    /\ rng' = rng + Len(result'.rows)
    /\ pc' = "done"
    /\ UNCHANGED <<dataset, grid, yr, raw, amount>>
    /\ UNCHANGED <<table, records, load_method, calls, db_error, run>>

Init == InitBalance \/ InitEgresos \/ InitIngresos

Next == TransformCp \/ TransformEgresos \/ TransformIngresos

Spec == Init /\ [][Next]_vars

\* each transform on its own: the three datasets share no state
SpecBalance == InitBalance /\ [][TransformCp]_vars
SpecEgresos == InitEgresos /\ [][TransformEgresos]_vars
SpecIngresos == InitIngresos /\ [][TransformIngresos]_vars

\* dated sheets: the statement date one word a cell as in the test, in upper
\* case with a one-digit day, and whole in one cell after other words
FechaTxt ==
    [AL |-> <<"A", "L">>,
     d5 |-> <<"5">>,
     DE |-> <<"D", "E">>,
     ENERO |-> <<"E", "N", "E", "R", "O">>,
     y2021 |-> <<"2", "0", "2", "1">>,
     one_cell |->
        <<"D", "e", "l", " ", "1", " ", "a", "l", " ", " ", "0", "1", " ", "d",
        "e", " ", "D", "i", "c", "i", "e", "m", "b", "r", "e", "TAB", "d", "e",
        " ", "2", "0", "2", "4">>]

DateRowUpper == <<None, S(FechaTxt.AL), S(FechaTxt.d5), S(FechaTxt.DE),
                  S(FechaTxt.ENERO), S(FechaTxt.DE), S(FechaTxt.y2021),
                  Amt.blank>>
DateRowOneCell == <<None, S(FechaTxt.one_cell), Amt.blank, Amt.blank,
                    Amt.blank, Amt.blank, Amt.blank, Amt.blank>>
DateRows == {InDateRow, DateRowUpper, DateRowOneCell}

\* sheets of 10 rows with a line item on row 9 and one or two dated rows
\* among rows 0..8 (row 8 is past the rows searched for a date)
FechaGrids ==
    {[i \in 1..10 |-> IF i = 10 THEN InLineRow
                      ELSE IF i = p + 1 THEN d1
                      ELSE IF i = q + 1 THEN d2
                      ELSE InBlankRow] :
        p \in 0..8, q \in 0..8, d1 \in DateRows, d2 \in DateRows}

InitFecha ==
    /\ pc = "start"
    /\ dataset = "ingresos"
    /\ grid \in FechaGrids
    /\ yr \in Years
    /\ rng = 0
    /\ result = Idle
    /\ raw = None
    /\ amount = None
    /\ table = <<>> /\ records = <<>> /\ load_method = ""
    /\ calls = <<>> /\ db_error = "" /\ run = NoRun

\* the ingresos transform on the sheets of the inputs above and on dated
\* sheets
SpecIngresosDated == (InitIngresos \/ InitFecha) /\ [][TransformIngresos]_vars

\* a sheet row of w columns with one text in one column (from 0)
TitledRow(w, c, t) ==
    [i \in 1..w |-> IF i = c + 1 THEN S(t) ELSE IF i = 1 THEN None
                                             ELSE Amt.blank]

\* sheets of 9 columns: two line items, the Section II title inside and outside the 8 columns
\* searched, a bare 'II.' inside and outside the 6 columns searched, the
\* financing title inside and outside the 8 columns searched, and a title
\* followed by other words
TitledRows ==
    {InLineRow \o <<Amt.blank>>,
     <<None, S(IngresosTxt.a1_ISR), Amt.n999, Amt.n999, Amt.n999, Amt.n999,
       Amt.n999, Amt.n999, Amt.blank>>,
     TitledRow(9, 1, IngresosTxt.II_bare \o <<" ">>
                        \o IngresosTxt.Transferencias),
     TitledRow(9, 8, IngresosTxt.Transferencias),
     TitledRow(9, 5, IngresosTxt.II_bare),
     TitledRow(9, 6, IngresosTxt.II_bare),
     TitledRow(9, 7, IngresosTxt.Financiamientos),
     TitledRow(9, 8, SubSeq(IngresosTxt.Financiamientos, 10, 37)),
     TitledRow(9, 1, SubSeq(IngresosTxt.Financiamientos, 10, 37)),
     TitledRow(9, 1, IngresosTxt.Transferencias \o <<" ">> \o IngresosTxt.al)}

InitTitled ==
    /\ pc = "start"
    /\ dataset = "ingresos"
    /\ grid \in {[i \in 1..7 |-> TitledRow(9, 0, <<>>)] \o b :
                    b \in UNION {[1..n -> TitledRows] : n \in 0..MaxIngresosBody}}
    /\ yr = 2024
    /\ rng = 0
    /\ result = Idle
    /\ raw = None
    /\ amount = None
    /\ table = <<>> /\ records = <<>> /\ load_method = ""
    /\ calls = <<>> /\ db_error = "" /\ run = NoRun

\* the ingresos transform on sheets with section titles in several columns
SpecIngresosTitled == InitTitled /\ [][TransformIngresos]_vars

\* sheets of 17 columns: line items with a blank column among seven amounts
\* and with amounts on the edge of the 10 columns right of the concept;
\* concepts in columns 3, 16 and 0
WideRows ==
    {<<None, S(IngresosTxt.a1_ISR), Amt.n999, Amt.n999, Amt.blank, Amt.n999,
       Amt.n999, Amt.n999, Amt.n999>> \o [i \in 1..8 |-> Amt.blank],
     <<None, S(IngresosTxt.a1_ISR), Amt.n10, Amt.n10, Amt.n10, Amt.n10,
       Amt.blank, Amt.blank, Amt.blank, Amt.blank, Amt.blank, Amt.n5, Amt.n5,
       Amt.blank, Amt.blank, Amt.blank, Amt.blank>>,
     TitledRow(17, 3, IngresosTxt.a1_ISR),
     TitledRow(17, 16, IngresosTxt.A_Impuestos),
     TitledRow(17, 0, IngresosTxt.A_Impuestos)}

\* rows 0..6 blank, or with the Section II title on row 1 or on row 2
InitWide ==
    /\ pc = "start"
    /\ dataset = "ingresos"
    /\ grid \in {[i \in 1..7 |-> IF i = t + 1
                                  THEN TitledRow(17, 1, IngresosTxt.Transferencias)
                                  ELSE TitledRow(17, 1, <<>>)] \o b :
                    t \in {1, 2, 7},
                    b \in UNION {[1..n -> WideRows] : n \in 0..MaxIngresosBody}}
    /\ yr = 2024
    /\ rng = 0
    /\ result = Idle
    /\ raw = None
    /\ amount = None
    /\ table = <<>> /\ records = <<>> /\ load_method = ""
    /\ calls = <<>> /\ db_error = "" /\ run = NoRun

\* the ingresos transform on sheets wider than the columns it searches
SpecIngresosWide == InitWide /\ [][TransformIngresos]_vars

(***************************************************************************)
(* A second run of the same transform on the same grid and year, in the    *)
(* same process: the key supply goes on from where the first run left it   *)
(***************************************************************************)
MaxRerunBody == 2

RerunCp ==
    /\ pc = "done"
    /\ dataset = "balance"
    /\ \E setitem \in SetitemOfEmptyApply :
            \* the pandas build of the second run is that of the first
            /\ transform_cp_data(grid, yr, 0, setitem).status = result.status
            /\ result' = transform_cp_data(grid, yr, rng, setitem)
    /\ rng' = rng + Len(result'.rows)
    /\ pc' = "rerun"
    /\ UNCHANGED <<dataset, grid, yr, raw, amount>>
    /\ UNCHANGED <<table, records, load_method, calls, db_error, run>>

RerunEgresos ==
    /\ pc = "done"
    /\ dataset = "egresos"
    /\ result' = transform_egresos_detallado_cp_data(grid, yr, rng)
    /\ rng' = rng + Len(result'.rows)
    /\ pc' = "rerun"
    /\ UNCHANGED <<dataset, grid, yr, raw, amount>>
    /\ UNCHANGED <<table, records, load_method, calls, db_error, run>>

RerunIngresos ==
    /\ pc = "done"
    /\ dataset = "ingresos"
    /\ result' = transform_ingresos_detallado_cp_data(grid, yr, rng)
    /\ rng' = rng + Len(result'.rows)
    /\ pc' = "rerun"
    /\ UNCHANGED <<dataset, grid, yr, raw, amount>>
    /\ UNCHANGED <<table, records, load_method, calls, db_error, run>>

\* the sheets of the three transforms with at most MaxRerunBody rows after
\* the title block, and the empty sheet
InitRerun ==
    /\ pc = "start"
    /\ \/ /\ dataset = "balance"
          /\ grid \in UNION {[1..n -> BalanceRows] : n \in 0..MaxRerunBody}
       \/ /\ dataset = "egresos"
          /\ grid \in {<<>>} \cup
                {h \o b : h \in EgresosHeaders,
                          b \in UNION {[1..n -> EgresosRows] :
                                            n \in 0..MaxRerunBody}}
       \/ /\ dataset = "ingresos"
          /\ grid \in {<<>>} \cup
                {h \o b : h \in IngresosHeaders,
                          b \in UNION {[1..n -> IngresosRows] :
                                            n \in 0..MaxRerunBody}}
    /\ yr \in Years
    /\ rng = 0
    /\ result = Idle
    /\ raw = None
    /\ amount = None
    /\ table = <<>> /\ records = <<>> /\ load_method = ""
    /\ calls = <<>> /\ db_error = "" /\ run = NoRun

SpecRerun ==
    InitRerun /\ [][Next \/ RerunCp \/ RerunEgresos \/ RerunIngresos]_vars

\* the two transforms that stamp their records with the year passed in
SpecYearStamped ==
    (InitBalance \/ InitEgresos) /\ [][TransformCp \/ TransformEgresos]_vars

(***************************************************************************)
(* The amount column of one cell, step by step as transform_cp_data treats *)
(* it: normalize (step 5), clean (step 8), NaN -> None (step 8).           *)
(***************************************************************************)
MaxAmountLen == 4

AmountAlphabet == {"1", "0", ",", "(", ")", "-", UMINUS, "$", " "}

AmountTexts == UNION {[1..k -> AmountAlphabet] : k \in 0..MaxAmountLen}

\* cells that are not text over AmountAlphabet: nulls, numbers, the literal
\* nan in several spellings, non-breaking spaces, unparseable words
OtherCells ==
    {None, NaN, Num(50), Num(-7),
     S(<<"n", "a", "n">>), S(<<"N", "a", "N">>), S(<<" ", "n", "a", "n",
         " ">>),
     S(<<"-", "n", "a", "n">>), S(<<"n", " ", "a", "n">>),
     S(<<"1", NBSP, "0", "0", "0">>), S(<<NNBSP, "5", "0", NBSP>>),
     S(<<"a", "b", "c">>), S(<<"N", "/", "A">>), S(<<NBSP>>), S(<<"TAB", "7",
         "LF">>)}

RawCells == {S(t) : t \in AmountTexts} \cup OtherCells

InitAmount ==
    /\ pc = "raw"
    /\ dataset = "amount"
    /\ grid = <<>>
    /\ yr = 0
    /\ rng = 0
    /\ result = Idle
    /\ raw \in RawCells
    /\ amount = raw
    /\ table = <<>> /\ records = <<>> /\ load_method = ""
    /\ calls = <<>> /\ db_error = "" /\ run = NoRun

NormalizeAmount ==
    /\ pc = "raw"
    /\ amount' = _normalize_amount_for_cp(amount)
    /\ pc' = "normalized"
    /\ UNCHANGED <<dataset, grid, yr, rng, result, raw>>
    /\ UNCHANGED <<table, records, load_method, calls, db_error, run>>

CleanAmount ==
    /\ pc = "normalized"
    /\ amount' = clean_amount(amount)
    /\ pc' = "cleaned"
    /\ UNCHANGED <<dataset, grid, yr, rng, result, raw>>
    /\ UNCHANGED <<table, records, load_method, calls, db_error, run>>

NullAmount ==
    /\ pc = "cleaned"
    /\ amount' = NanToNone(amount)
    /\ pc' = "final"
    /\ UNCHANGED <<dataset, grid, yr, rng, result, raw>>
    /\ UNCHANGED <<table, records, load_method, calls, db_error, run>>

SpecAmount ==
    InitAmount /\ [][NormalizeAmount \/ CleanAmount \/ NullAmount]_vars

(***************************************************************************)
(* The load layer: load, single_upsert and bulk_overwrite (single_load and *)
(* bulk_load in the egresos and ingresos assets) against a table whose     *)
(* primary key is surrogate_key.  A table is a function from the keys it   *)
(* holds to the non-key columns of the row; a batch is df.to_dict(orient=  *)
(* "records"), a sequence of records.  The non-key columns are two.  The   *)
(* outcome of a call is a record: the table it leaves, what the caller     *)
(* gets, the client primitives it invoked and the error of the database.   *)
(***************************************************************************)
MaxBatch == 2

\* batches of records over the keys k1, k2, k3, with two rows of non-key
\* columns to choose from
Batches ==
    UNION {[1..n ->
                {[surrogate_key |-> k, concept |-> v.concept,
                  amount |-> v.amount] :
                    k \in {"k1", "k2", "k3"},
                    v \in {[concept |-> "A1", amount |-> 10],
                           [concept |-> "B1", amount |-> 25]}}] :
           n \in 0..MaxBatch}

\* the tables over the same keys and rows
Tables ==
    UNION {[ks -> {[concept |-> "A1", amount |-> 10],
                   [concept |-> "B1", amount |-> 25]}] :
           ks \in SUBSET {"k1", "k2", "k3"}}

KeysIn(B) == {B[i].surrogate_key : i \in 1..Len(B)}

\* the rows a batch of distinct keys holds, as a table
Rows(B) ==
    [k \in KeysIn(B) |->
        [concept |-> B[CHOOSE i \in 1..Len(B) : B[i].surrogate_key = k].concept,
         amount |-> B[CHOOSE i \in 1..Len(B) : B[i].surrogate_key = k].amount]]

\* an exception raised while the load was running, with the error beneath it
RaiseFrom(error, cause) ==
    [status |-> "raise", error |-> error, rows |-> <<>>, cause |-> cause]

\* the conflicting row keeps its columns
OnConflictDoNothing(T, B) == T @@ Rows(B)

\* pg_insert(table).values(B).on_conflict_do_update(index_elements=
\* ["surrogate_key"], set_={every non-key column: excluded})
on_conflict_do_update(T, B) == Rows(B) @@ T

\* the error the statements of single_upsert and bulk_overwrite end with (""
\* for none): the connection fails, the batch is empty (on_empty: an INSERT
\* of no parameter sets does nothing, or adds a row of defaults that the
\* primary key refuses), or the batch holds a key twice (twice is the error
\* of the database then); bulk_overwrite inserts into a table it has
\* emptied, so only the batch can break the key
StatementError(B, fault, on_empty, twice) ==
    IF fault THEN "OperationalError"
    ELSE IF B = <<>> THEN on_empty
    ELSE IF Cardinality(KeysIn(B)) < Len(B) THEN twice
    ELSE ""

\* without a commit the statements are rolled back with the connection
single_upsert(T, B, err) ==
    IF err # ""
    THEN [table |-> T, result |-> RaiseFrom("RuntimeError", err),
          calls |-> <<>>, db_error |-> err]
    ELSE [table |-> on_conflict_do_update(T, B), result |-> Ok(<<>>),
          calls |-> <<>>, db_error |-> ""]

\* the INSERT without the TRUNCATE before it
BulkInsertOnly(T, B, err) ==
    IF err # ""
    THEN [table |-> T, result |-> RaiseFrom("RuntimeError", err),
          calls |-> <<>>, db_error |-> err]
    ELSE [table |-> T @@ Rows(B), result |-> Ok(<<>>),
          calls |-> <<>>, db_error |-> ""]

\* TRUNCATE TABLE, then INSERT of the batch, in one transaction
bulk_overwrite(T, B, err) ==
    IF err # ""
    THEN [table |-> T, result |-> RaiseFrom("RuntimeError", err),
          calls |-> <<>>, db_error |-> err]
    ELSE [table |-> Rows(B), result |-> Ok(<<>>),
          calls |-> <<>>, db_error |-> ""]

\* PostgreSqlClient.insert / upsert / overwrite: insert adds the records,
\* upsert updates all non-key columns from the incoming record, overwrite
\* is an atomic truncate-then-insert; a failure leaves the table as it was
ClientError(primitive, T, B, fault) ==
    IF fault THEN "OperationalError"
    ELSE IF Cardinality(KeysIn(B)) < Len(B) THEN "IntegrityError"
    ELSE IF primitive = "insert" /\ KeysIn(B) \cap DOMAIN T # {}
         THEN "IntegrityError"
    ELSE ""

ClientTable(primitive, T, B) ==
    CASE primitive = "insert" -> T @@ Rows(B)
      [] primitive = "upsert" -> Rows(B) @@ T
      [] primitive = "overwrite" -> Rows(B)

\* an unknown method is taken for the default one
LoadDefaultsToUpsert(T, B, method, fault) ==
    IF method \in {"insert", "overwrite"}
    THEN [table |-> ClientTable(method, T, B), result |-> Ok(<<>>),
          calls |-> <<method>>, db_error |-> ""]
    ELSE [table |-> ClientTable("upsert", T, B), result |-> Ok(<<>>),
          calls |-> <<"upsert">>, db_error |-> ""]

\* load has no try: what the client raises goes up to the caller as it is
load(T, B, method, fault) ==
    IF method \in {"insert", "upsert", "overwrite"}
    THEN IF ClientError(method, T, B, fault) # ""
         THEN [table |-> T,
               result |-> RaiseFrom(ClientError(method, T, B, fault), ""),
               calls |-> <<method>>,
               db_error |-> ClientError(method, T, B, fault)]
         ELSE [table |-> ClientTable(method, T, B), result |-> Ok(<<>>),
               calls |-> <<method>>, db_error |-> ""]
    ELSE [table |-> T, result |-> RaiseFrom("ValueError", ""),
          calls |-> <<>>, db_error |-> ""]

InitLoad ==
    /\ pc = "start"
    /\ dataset \in {"balance", "egresos", "ingresos"}
    /\ grid = <<>>
    /\ yr = 2020
    /\ rng = 0
    /\ result = Idle
    /\ raw = None
    /\ amount = None
    /\ table \in Tables
    /\ records = <<>>
    /\ load_method = ""
    /\ calls = <<>>
    /\ db_error = "" /\ run = NoRun

Load ==
    /\ pc = "start"
    /\ \E B \in Batches, method \in {"insert", "upsert", "overwrite", "append"},
          fault \in BOOLEAN :
            /\ records' = B
            /\ load_method' = method
            /\ table' = load(table, B, method, fault).table
            /\ result' = load(table, B, method, fault).result
            /\ calls' = load(table, B, method, fault).calls
            /\ db_error' = load(table, B, method, fault).db_error
    /\ pc' = "load"
    /\ UNCHANGED <<dataset, grid, yr, rng, raw, amount, run>>

SingleUpsert ==
    /\ pc = "start"
    /\ \E B \in Batches :
        \E err \in {StatementError(B, fault, on_empty, "CardinalityViolation") :
                     fault \in BOOLEAN, on_empty \in {"", "IntegrityError"}} :
            /\ records' = B
            /\ table' = single_upsert(table, B, err).table
            /\ result' = single_upsert(table, B, err).result
            /\ calls' = single_upsert(table, B, err).calls
            /\ db_error' = single_upsert(table, B, err).db_error
    /\ pc' = "single_upsert"
    /\ UNCHANGED <<dataset, grid, yr, rng, raw, amount, load_method, run>>

BulkOverwrite ==
    /\ pc = "start"
    /\ \E B \in Batches :
        \E err \in {StatementError(B, fault, on_empty, "IntegrityError") :
                     fault \in BOOLEAN, on_empty \in {"", "IntegrityError"}} :
            /\ records' = B
            /\ table' = bulk_overwrite(table, B, err).table
            /\ result' = bulk_overwrite(table, B, err).result
            /\ calls' = bulk_overwrite(table, B, err).calls
            /\ db_error' = bulk_overwrite(table, B, err).db_error
    /\ pc' = "bulk_overwrite"
    /\ UNCHANGED <<dataset, grid, yr, rng, raw, amount, load_method, run>>

\* the same overwrite is run a second time with the same records
BulkOverwriteAgain ==
    /\ pc = "bulk_overwrite"
    /\ \E err \in {StatementError(records, fault, on_empty, "IntegrityError") :
                     fault \in BOOLEAN, on_empty \in {"", "IntegrityError"}} :
            /\ table' = bulk_overwrite(table, records, err).table
            /\ result' = bulk_overwrite(table, records, err).result
            /\ calls' = bulk_overwrite(table, records, err).calls
            /\ db_error' = bulk_overwrite(table, records, err).db_error
    /\ pc' = "bulk_overwrite_again"
    /\ UNCHANGED <<dataset, grid, yr, rng, raw, amount, load_method, records, run>>

SpecLoad ==
    InitLoad
        /\ [][Load \/ SingleUpsert \/ BulkOverwrite \/ BulkOverwriteAgain]_vars

(***************************************************************************)
(* pipelines: egresos_detallado_cp_bulk_pipeline.py and the two single     *)
(* pipelines, each inside its run_* wrapper.  run holds the bucket listing *)
(* (listing, files), the loop of the bulk pipeline (years, idx, parts),    *)
(* the lines the pipeline logged from 120 on (trace), the statuses written *)
(* by the metadata logger (meta), the log handlers, the exception the      *)
(* wrapper re-raised, and the table before the run.  result is the outcome  *)
(* of pipeline(): the exception it raised, or the last frame.              *)
(***************************************************************************)
MaxYears == 2

\* the years that can have a file in the bucket
YearPool == {2020, 2021, 2024}

\* the files of a year, by dataset: unreadable or empty; then, for egresos, a
\* sheet without the marker, a sheet with a line item in each section and a
\* sheet with the marker alone; for ingresos, a sheet with a line item of
\* six amounts and one of five; for balance, a coded row and a row without
\* a code
Sheets(ds) ==
    CASE ds = "egresos" ->
            {<<>>,
             [i \in 1..8 |-> EgBlankRow]
                \o <<<<None, S(EgresosTxt.A1_Servicios), Amt.n100, Amt.n0,
                       Amt.n100, Amt.n90, Amt.paren50, Amt.n15>>>>,
             [i \in 1..8 |-> EgBlankRow]
                \o <<<<None, S(EgresosTxt.A1_Servicios), Amt.n100, Amt.n0,
                       Amt.n100, Amt.n90, Amt.paren50, Amt.n15>>,
                     EgMarkerRow,
                     <<None, S(EgresosTxt.B12_Materiales), Amt.n1000, Num(5),
                       Amt.n900, Amt.n40, None, Amt.n15>>>>,
             [i \in 1..8 |-> EgBlankRow] \o <<EgMarkerRow>>}
      [] ds = "ingresos" ->
            {<<>>,
             [i \in 1..7 |-> InBlankRow] \o <<InLineRow>>,
             [i \in 1..7 |-> InBlankRow]
                \o <<<<None, S(IngresosTxt.a1_ISR), Amt.paren50, Amt.blank,
                       Amt.paren50, Amt.uminus25, Amt.n30minus, Amt.n5>>>>}
      [] ds = "balance" ->
            {<<>>,
             <<<<None, S(BalanceTxt.A1_Libre), Amt.n1000, Amt.paren50,
                 Amt.n900>>>>,
             <<<<None, S(BalanceTxt.X_NoCode), Amt.n100, Amt.n90, Amt.n900>>>>}

\* the years in the order of the listing, a year once
ListingOrder(keys) == DropDuplicates(keys, keys)

\* sorted(set(years)) over the years of the keys listed
find_all_egresos_detallado_cp_years(keys) ==
    [k \in 1..Cardinality(Range(keys)) |->
        CHOOSE y \in Range(keys) :
            Cardinality({x \in Range(keys) : x < y}) = k - 1]

\* the transform of a single pipeline
TransformOf(ds, df, year, rng0, setitem) ==
    IF ds = "ingresos" THEN transform_ingresos_detallado_cp_data(df, year, rng0)
    ELSE transform_cp_data(df, year, rng0, setitem)

\* the rows of a frame by primary key
FrameTable(B) ==
    [k \in KeysIn(B) |-> B[CHOOSE i \in 1..Len(B) : B[i].surrogate_key = k]]

\* egresos_detallado_cp.bulk_load: TRUNCATE and INSERT in one transaction,
\* any error raised again as RuntimeError
bulk_load(T, B, err) ==
    IF err # ""
    THEN [table |-> T, result |-> RaiseFrom("RuntimeError", err)]
    ELSE [table |-> FrameTable(B), result |-> Ok(B)]

\* PostgreSqlClient.upsert: the incoming rows replace the rows of their keys
upsert(T, B, err) ==
    IF err # ""
    THEN [table |-> T, result |-> RaiseFrom(err, "")]
    ELSE [table |-> FrameTable(B) @@ T, result |-> Ok(B)]

\* MetaDataLogging.log(status): one more entry in the metadata table
log(meta, status) == Append(meta, status)

\* a line of the pipeline log
Line(op, year) == [op |-> op, year |-> year]

InitPipeline ==
    /\ pc = "start"
    /\ dataset \in {"egresos", "ingresos", "balance"}
    /\ grid = <<>>
    /\ yr = 0
    /\ rng = 0
    /\ result = Idle
    /\ raw = None
    /\ amount = None
    /\ table \in {<<>>, [k \in {-1} |-> [surrogate_key |-> -1]]}
    /\ records = <<>>
    /\ load_method = ""
    /\ calls = <<>>
    /\ db_error = ""
    /\ \E keys \in UNION {[1..n -> YearPool] : n \in 0..MaxYears} :
        \E files \in [Range(keys) -> Sheets(dataset)] :
            run = [pipeline |-> IF dataset = "egresos" THEN "bulk" ELSE "single",
                   listing |-> keys, files |-> files, years |-> <<>>,
                   idx |-> 0, parts |-> <<>>, trace |-> <<>>, meta |-> <<>>,
                   handlers |-> TRUE, raised |-> "", table0 |-> table]

\* run_*_pipeline, the first statement of the try: metadata_logger.log()
RunStart ==
    /\ pc = "start"
    /\ run.pipeline # ""
    /\ run' = [run EXCEPT !.meta = log(run.meta, "RUN_START")]
    /\ pc' = "pipeline"
    /\ UNCHANGED <<dataset, grid, yr, rng, result, raw, amount, table, records,
                   load_method, calls, db_error>>

\* pipeline() of the bulk pipeline up to the loop: the years, or
\* FileNotFoundError
Discover ==
    /\ pc = "pipeline"
    /\ run.pipeline = "bulk"
    /\ run' = [run EXCEPT
                !.years = find_all_egresos_detallado_cp_years(run.listing)]
    /\ IF run'.years = <<>>
       THEN result' = Raise("FileNotFoundError") /\ pc' = "raised"
       ELSE result' = result /\ pc' = "extract"
    /\ UNCHANGED <<dataset, grid, yr, rng, raw, amount, table, records,
                   load_method, calls, db_error>>

\* where the loop goes after the year at position i
AfterYear(i) == IF i < Len(run.years) THEN "extract" ELSE "concat"

\* the loop of the bulk pipeline, first half: extract the next year; an
\* empty or unreadable file is skipped
Extract ==
    /\ pc = "extract"
    /\ yr' = run.years[run.idx + 1]
    /\ grid' = run.files[yr']
    /\ IF grid' = <<>>
       THEN /\ run' = [run EXCEPT !.idx = run.idx + 1,
                           !.trace = Append(run.trace, Line("extract", yr'))]
            /\ pc' = AfterYear(run.idx + 1)
       ELSE /\ run' = [run EXCEPT
                           !.trace = Append(run.trace, Line("extract", yr'))]
            /\ pc' = "transform"
    /\ UNCHANGED <<dataset, rng, result, raw, amount, table, records,
                   load_method, calls, db_error>>

\* the loop of the bulk pipeline, second half: transform the year; nothing
\* catches what the transform raises
TransformYear ==
    /\ pc = "transform"
    /\ result' = transform_egresos_detallado_cp_data(grid, yr, rng)
    /\ rng' = rng + Len(result'.rows)
    /\ IF result'.status = "raise"
       THEN /\ run' = [run EXCEPT
                           !.trace = Append(run.trace, Line("transform", yr))]
            /\ pc' = "raised"
       ELSE /\ run' = [run EXCEPT
                           !.idx = run.idx + 1,
                           !.parts = IF result'.rows # <<>>
                                     THEN Append(run.parts, result'.rows)
                                     ELSE run.parts,
                           !.trace = Append(run.trace, Line("transform", yr))]
            /\ pc' = AfterYear(run.idx + 1)
    /\ UNCHANGED <<dataset, grid, yr, raw, amount, table, records,
                   load_method, calls, db_error>>

\* after the loop: ValueError when no year gave records, else pd.concat
ConcatParts ==
    /\ pc = "concat"
    /\ IF run.parts = <<>>
       THEN result' = Raise("ValueError") /\ records' = records /\ pc' = "raised"
       ELSE result' = result /\ records' = Concat(run.parts) /\ pc' = "load"
    /\ UNCHANGED <<dataset, grid, yr, rng, raw, amount, table, load_method,
                   calls, db_error, run>>

\* bulk_load(df=final_df, ...), with or without a failure of the database
BulkLoad ==
    /\ pc = "load"
    /\ \E err \in {"", "OperationalError"} :
        /\ table' = bulk_load(table, records, err).table
        /\ result' = bulk_load(table, records, err).result
        /\ db_error' = err
        /\ pc' = IF err = "" THEN "returned" ELSE "raised"
    /\ run' = [run EXCEPT !.trace = Append(run.trace, Line("load", 0))]
    /\ UNCHANGED <<dataset, grid, yr, rng, raw, amount, records, load_method,
                   calls>>

\* a single pipeline from the extraction on: ValueError on an empty file,
\* what the transform raises, or client.upsert of the frame
SingleYear(year, frame, err) ==
    /\ yr' = year
    /\ grid' = run.files[year]
    /\ IF grid' = <<>>
       THEN /\ result' = Raise("ValueError")
            /\ run' = [run EXCEPT !.years = <<year>>,
                        !.trace = <<Line("extract", year)>>]
            /\ UNCHANGED <<rng, table, records, db_error>>
            /\ pc' = "raised"
       ELSE IF frame.status = "raise"
       THEN /\ result' = frame
            /\ run' = [run EXCEPT !.years = <<year>>,
                        !.trace = <<Line("extract", year),
                                    Line("transform", year)>>]
            /\ UNCHANGED <<rng, table, records, db_error>>
            /\ pc' = "raised"
       ELSE /\ result' = upsert(table, frame.rows, err).result
            /\ table' = upsert(table, frame.rows, err).table
            /\ db_error' = err
            /\ records' = frame.rows
            /\ rng' = rng + Len(frame.rows)
            /\ run' = [run EXCEPT !.years = <<year>>,
                        !.trace = <<Line("extract", year),
                                    Line("transform", year), Line("load", 0)>>]
            /\ pc' = IF err = "" THEN "returned" ELSE "raised"

\* the latest of the years listed: max(years)
LatestYear(years) == years[Len(years)]

\* pipeline() of a single pipeline: FileNotFoundError without a year, else
\* the latest year
SinglePipeline ==
    /\ pc = "pipeline"
    /\ run.pipeline = "single"
    /\ IF run.listing = <<>>
       THEN /\ result' = Raise("FileNotFoundError")
            /\ UNCHANGED <<grid, yr, rng, table, records, db_error, run>>
            /\ pc' = "raised"
       ELSE \E setitem \in SetitemOfEmptyApply, err \in {"", "OperationalError"} :
                SingleYear(
                    LatestYear(find_all_egresos_detallado_cp_years(run.listing)),
                    TransformOf(dataset,
                        run.files[LatestYear(
                            find_all_egresos_detallado_cp_years(run.listing))],
                        LatestYear(
                            find_all_egresos_detallado_cp_years(run.listing)),
                        rng, setitem),
                    err)
    /\ UNCHANGED <<dataset, raw, amount, load_method, calls>>

\* the rest of the try: RUN_SUCCESS, handlers.clear()
RunSuccess ==
    /\ pc = "returned"
    /\ run' = [run EXCEPT !.meta = log(run.meta, "RUN_SUCCESS"),
                          !.handlers = FALSE]
    /\ pc' = "end"
    /\ UNCHANGED <<dataset, grid, yr, rng, result, raw, amount, table, records,
                   load_method, calls, db_error>>

\* the except branch without the raise at its end
RunFailureSwallowed ==
    /\ pc = "raised"
    /\ run' = [run EXCEPT !.meta = log(run.meta, "RUN_FAILURE"),
                          !.handlers = FALSE]
    /\ pc' = "end"
    /\ UNCHANGED <<dataset, grid, yr, rng, result, raw, amount, table, records,
                   load_method, calls, db_error>>

\* the except branch: RUN_FAILURE, handlers.clear(), raise
RunFailure ==
    /\ pc = "raised"
    /\ run' = [run EXCEPT !.meta = log(run.meta, "RUN_FAILURE"),
                          !.handlers = FALSE,
                          !.raised = result.error]
    /\ pc' = "end"
    /\ UNCHANGED <<dataset, grid, yr, rng, result, raw, amount, table, records,
                   load_method, calls, db_error>>

SpecPipeline ==
    InitPipeline
        /\ [][RunStart \/ Discover \/ Extract \/ TransformYear \/ ConcatParts
                \/ BulkLoad \/ SinglePipeline \/ RunSuccess \/ RunFailure]_vars

(***************************************************************************)
(* The Lambda entry point (lambda_handler.py)                              *)
(*                                                                         *)
(* An object key and a route name are texts whose elements are whole       *)
(* tokens: a path segment, a separator or an escape ("%2F", "+").  The     *)
(* event is None or a JSON object; an object is a record of kind "dict"    *)
(* whose other fields are its keys, so the empty object has no other       *)
(* field.  A record of the event carries rec["s3"]["object"]["key"] as its  *)
(* field key.                                                              *)
(***************************************************************************)
\* urllib.parse.unquote_plus: '+' is a space, then every escape is decoded
\* once
unquote_plus(key) ==
    [i \in 1..Len(key) |->
        CASE key[i] = "+" -> " "
          [] key[i] \in {"%2F", "%2f"} -> "/"
          [] key[i] = "%252F" -> "%2F"
          [] OTHER -> key[i]]

\* bool(v): None, '' and {} are false
Truthy(v) ==
    CASE v.kind = "none" -> FALSE
      [] v.kind = "str" -> v.text # <<>>
      [] v.kind = "dict" -> DOMAIN v # {"kind"}
      [] OTHER -> TRUE

\* a or b
PyOr(a, b) == IF Truthy(a) THEN a ELSE b

RawPrefix(folder) == <<"finanzas", "/", folder, "/", "raw", "/">>

\* the three startswith tests, in the order of the source
KeyRoute(key) ==
    IF StartsWith(key, RawPrefix("Balance_Presupuestario_CP"))
    THEN S(<<"balance_cp_single">>)
    ELSE IF StartsWith(key, RawPrefix("Egresos_Detallado_CP"))
    THEN S(<<"egresos_cp_single">>)
    ELSE IF StartsWith(key, RawPrefix("Ingresos_Detallado_CP"))
    THEN S(<<"ingresos_cp_single">>)
    ELSE None

\* a missing "Records", an empty list and a record without a key raise inside
\* the try and give None, as does a record whose eventSource is not aws:s3
_route_from_s3_event(event) ==
    IF "Records" \notin DOMAIN event THEN None
    ELSE IF event.Records = <<>> THEN None
    ELSE IF "eventSource" \notin DOMAIN event.Records[1] THEN None
    ELSE IF event.Records[1].eventSource # "aws:s3" THEN None
    ELSE IF "key" \notin DOMAIN event.Records[1] THEN None
    ELSE KeyRoute(unquote_plus(event.Records[1].key))

\* s3_target = _route_from_s3_event(event) if event else None
s3_target(event) ==
    IF Truthy(event) THEN _route_from_s3_event(event) ELSE None

\* (event or {}).get("pipeline")
PipelineField(event) ==
    IF Truthy(event) /\ "pipeline" \in DOMAIN event THEN event.pipeline ELSE None

\* os.environ.get("PIPELINE_TARGET", "")
EnvTarget(environ) ==
    IF "PIPELINE_TARGET" \in DOMAIN environ
    THEN S(environ.PIPELINE_TARGET) ELSE S(<<>>)

\* the event field before the route of the key
TargetFieldFirst(event, environ) ==
    PyOr(PyOr(PipelineField(event), s3_target(event)), EnvTarget(environ))

\* target = s3_target or (event or {}).get("pipeline") or os.environ.get(...)
TargetOf(event, environ) ==
    PyOr(PyOr(s3_target(event), PipelineField(event)), EnvTarget(environ))

\* routes: the route name and the pipeline function its lambda passes to _run
routes ==
    [name \in {<<"egresos_cp_single">>, <<"egresos_cp_bulk">>,
               <<"ingresos_cp_single">>, <<"ingresos_cp_bulk">>,
               <<"balance_cp_single">>, <<"balance_cp_bulk">>} |->
        CASE name = <<"egresos_cp_single">> -> "egresos_cp_single_pipeline"
          [] name = <<"egresos_cp_bulk">> -> "egresos_cp_bulk_pipeline"
          [] name = <<"ingresos_cp_single">> -> "ingresos_cp_single_pipeline"
          [] name = <<"ingresos_cp_bulk">> -> "ingresos_cp_bulk_pipeline"
          [] name = <<"balance_cp_single">> -> "balance_cp_single_pipeline"
          [] OTHER -> "balance_cp_bulk_pipeline"]

\* target in routes
InRoutes(target) == target.kind = "str" /\ target.text \in DOMAIN routes

\* _run(pipeline_func, pipeline_name): pipeline_func(pipeline_logging=plog)
\* is called once; what it raises leaves the handler
_run(ran, pipeline_func) == Append(ran, pipeline_func)

\* the value of handler(event, context), or what it raises
HandlerResult(event, environ, err) ==
    IF ~InRoutes(TargetOf(event, environ)) THEN Raise("ValueError")
    ELSE IF err # "" THEN Raise(err)
    ELSE Ok(<<[ok |-> TRUE, pipeline |-> TargetOf(event, environ).text,
               db_logging |-> FALSE]>>)

\* the object keys of the bucket notifications
ObjectKeys ==
    {<<"finanzas", sep, folder, sep, stage>> \o tail :
        sep \in {"/", "%2F", "%252F"},
        folder \in {"Balance_Presupuestario_CP", "Egresos_Detallado_CP",
                    "Ingresos_Detallado_CP", "Egresos_Detallado",
                    "egresos_detallado_cp"},
        stage \in {"raw", "clean"},
        tail \in {<<>>, <<"/">>, <<"%2F", "f.xlsx">>,
                  <<"/", "a", "+", "b.xlsx">>}}

EventRecords ==
    {[eventSource |-> src, key |-> key] :
        src \in {"aws:s3", "aws:sqs"}, key \in ObjectKeys}
        \cup {[eventSource |-> "aws:s3"],
              [key |-> RawPrefix("Egresos_Detallado_CP")]}

\* a second record, of another prefix than any first one
LaterRecord ==
    [eventSource |-> "aws:s3",
     key |-> RawPrefix("Ingresos_Detallado_CP") \o <<"z.xlsx">>]

RecordLists ==
    {<<>>} \cup {<<rec>> : rec \in EventRecords}
           \cup {<<rec, LaterRecord>> : rec \in EventRecords}

PipelineFields ==
    {None, S(<<>>), S(<<"egresos_cp_bulk">>), S(<<"ingresos_cp_single">>),
     S(<<"egresos_cp_bulk", "2">>)}

Events ==
    {None, [kind |-> "dict"]}
        \cup {[kind |-> "dict", pipeline |-> f] : f \in PipelineFields}
        \cup {[kind |-> "dict", Records |-> recs] : recs \in RecordLists}
        \cup {[kind |-> "dict", Records |-> recs, pipeline |-> f] :
                recs \in RecordLists, f \in PipelineFields}

Environs ==
    {[kind |-> "dict"]}
        \cup {[kind |-> "dict", PIPELINE_TARGET |-> t] :
                t \in {<<>>, <<"balance_cp_bulk">>, <<"egresos_cp_single">>,
                       <<"Balance_CP_Bulk">>}}

InitHandler ==
    /\ pc = "invoke"
    /\ dataset = ""
    /\ grid = <<>>
    /\ yr = 0
    /\ rng = 0
    /\ result = Idle
    /\ raw = None
    /\ amount = None
    /\ table = <<>>
    /\ records = <<>>
    /\ load_method = ""
    /\ calls = <<>>
    /\ db_error = ""
    /\ \E event \in Events : \E environ \in Environs :
        run = [pipeline |-> "handler", event |-> event, environ |-> environ,
               ran |-> <<>>]

\* handler(event, context); the pipeline it calls returns or raises
handler ==
    /\ pc = "invoke"
    /\ run.pipeline = "handler"
    /\ \E err \in {"", "FileNotFoundError", "ValueError"} :
        result' = HandlerResult(run.event, run.environ, err)
    /\ run' = [run EXCEPT !.ran =
                IF InRoutes(TargetOf(run.event, run.environ))
                THEN _run(run.ran, routes[TargetOf(run.event, run.environ).text])
                ELSE run.ran]
    /\ pc' = "end"
    /\ UNCHANGED <<dataset, grid, yr, rng, raw, amount, table, records,
                   load_method, calls, db_error>>

SpecHandler == InitHandler /\ [][handler]_vars

(***************************************************************************)
(* C4                                                                      *)
(***************************************************************************)
IsDigits(t) == t # <<>> /\ \A i \in 1..Len(t) : t[i] \in Digit

Ignored == {",", "$", " ", NBSP, NNBSP}

\* a magnitude: digits, possibly with thousands separators, '$' and spaces
IsMagnitude(t) ==
    /\ \A i \in 1..Len(t) : t[i] \in Digit \cup Ignored
    /\ \E i \in 1..Len(t) : t[i] \in Digit

DigitsOf(t) == SelectSeq(t, LAMBDA c : c \in Digit)

MagnitudeVal(t) == DigitsVal(DigitsOf(t))

RawText == Strip(PyStr(raw))

NoValueRaw ==
    \/ raw \in {None, NaN}
    \/ RawText = <<>>
    \/ Lower(RawText) = <<"n", "a", "n">>

\* C4: the normalizer followed by the parser maps every raw cell to a number
\* or to no-value; '(m)', 'm-' and a leading U+2212 give the negative of the
\* magnitude m; separators, '$' and spaces inside a magnitude are ignored;
\* null, blank and 'nan' give no-value; text with any other character gives
\* no-value; a number comes only from the digits of the cell, so no-value is
\* never turned into 0, and the transform's last step leaves None or a number.
C4_AmountPipeline ==
    /\ pc \in {"cleaned", "final"} =>
        /\ amount.kind \in {"num", "none", "nan"}
        /\ raw.kind = "str" =>
            /\ (StartsWith(RawText, <<"(">>) /\ EndsWith(RawText, <<")">>)
                    /\ IsMagnitude(Inner(RawText)))
                => amount = Num(-MagnitudeVal(RawText))
            /\ (EndsWith(RawText, <<"-">>) /\ IsMagnitude(ButLast(RawText)))
                => amount = Num(-MagnitudeVal(RawText))
            /\ (RawText # <<>> /\ RawText[1] \in {UMINUS, "-"}
                    /\ IsMagnitude(Tail(RawText)))
                => amount = Num(-MagnitudeVal(RawText))
            /\ IsMagnitude(RawText) => amount = Num(MagnitudeVal(RawText))
            /\ (\E i \in 1..Len(RawText) :
                    RawText[i] \notin Digit \cup Ignored \cup {"(", ")", "-", UMINUS})
                => isna(amount)
        /\ NoValueRaw => amount = None
        /\ amount.kind = "num" =>
            /\ DigitsOf(PyStr(raw)) # <<>>
            /\ amount.num \in {MagnitudeVal(PyStr(raw)), -MagnitudeVal(PyStr(raw))}
    /\ pc = "final" => amount.kind \in {"num", "none"}

C4_Witness ==
    /\ pc = "final"
    /\ raw = S(<<"(", "1", "0", ")">>)
    /\ amount = Num(-10)

(***************************************************************************)
(* C1, C2, C3: the balance transform                                       *)
(***************************************************************************)
DetailedCodes ==
    {<<"A", "1">>, <<"A", "2">>, <<"A", "3">>, <<"B", "1">>, <<"B", "2">>,
     <<"C", "1">>, <<"C", "2">>, <<"E", "1">>, <<"E", "2">>, <<"F", "1">>,
     <<"F", "2">>, <<"G", "1">>, <<"G", "2">>}

\* the column-1 cell is a text that starts with the detailed code, a period
\* right after it
StartsWithCode(row, code) ==
    row[2].kind = "str" /\ StartsWith(row[2].text, code \o <<".">>)

CodesPresent == {code \in DetailedCodes :
                    \E i \in 1..Len(grid) : StartsWithCode(grid[i], code)}

BalanceDone == pc = "done" /\ dataset = "balance"

ConceptsOut == {result.rows[k].concept : k \in 1..Len(result.rows)}

\* C1: the balance transform returns, and the set of concept values of its
\* output is the set of detailed codes with which some column-1 text of the
\* grid starts; aggregate and non-code rows add no concept.
C1_BalanceFilter ==
    BalanceDone =>
        /\ result.status = "ok"
        /\ ConceptsOut = {S(code) : code \in CodesPresent}

\* the first grid row, from 1, whose column 1 starts with the code
FirstRowOf(code) ==
    CHOOSE i \in 1..Len(grid) :
        /\ StartsWithCode(grid[i], code)
        /\ \A j \in 1..(i - 1) : ~StartsWithCode(grid[j], code)

RoleColumn(type) == 2 + CHOOSE c \in 1..3 : amount_cols[c] = type

\* C2: every record of the balance output carries the label and the amount
\* of the first grid row with its code, in the column of its role; no record
\* is built from a later row with the same code.
C2_FirstOccurrenceWins ==
    (BalanceDone /\ result.status = "ok") =>
        \A k \in 1..Len(result.rows) :
            LET rec == result.rows[k]
                src == grid[FirstRowOf(rec.concept.text)]
            IN  /\ rec.concept.text \in CodesPresent
                /\ rec.sublabel = S(LabelA(src[2].text))
                /\ rec.amount = NanToNone(clean_amount(
                        _normalize_amount_for_cp(src[RoleColumn(rec.type)])))

\* two rows with the code A1 and different labels and amounts, the first
\* of them with the amounts 1,000 / (50) / 900
C2_Witness ==
    /\ BalanceDone
    /\ result.status = "ok"
    /\ Len(grid) = 3
    /\ grid[1][2] = S(BalanceTxt.A_Totales)
    /\ grid[2][2] = S(BalanceTxt.A1_Libre)
    /\ grid[3][2] = S(BalanceTxt.A1_Otro)
    /\ Len(result.rows) = 3
    /\ result.rows[2].amount = Num(-50)

\* C3: with N detailed codes present in the grid the balance transform
\* returns exactly 3N rows, one for every pair of a code and a role, with
\* the label of the code's source row.
C3_ReshapeArity ==
    BalanceDone =>
        /\ result.status = "ok"
        /\ Len(result.rows) = 3 * Cardinality(CodesPresent)
        /\ \A code \in CodesPresent : \A c \in 1..3 :
            \E k \in 1..Len(result.rows) :
                /\ result.rows[k].concept = S(code)
                /\ result.rows[k].type = amount_cols[c]
                /\ result.rows[k].sublabel =
                        S(LabelA(grid[FirstRowOf(code)][2].text))
                /\ \A q \in 1..Len(result.rows) :
                        (/\ result.rows[q].concept = S(code)
                         /\ result.rows[q].type = amount_cols[c]) => q = k

(***************************************************************************)
(* C5: period fields                                                       *)
(***************************************************************************)
YearText ==
    [y \in Years |-> IF y = 2020 THEN <<"2", "0", "2", "0">>
                     ELSE <<"2", "0", "2", "4">>]

\* C5: every row of the balance output has year_quarter '<year>_CP' and
\* full_date '<year>-12-31', and every row of the egresos output has Cuarto
\* 'CP' and Fecha '<year>-12-31', for the year given, whatever the grid holds.
C5_PeriodFields ==
    (pc = "done" /\ result.status = "ok") =>
        \A k \in 1..Len(result.rows) :
            /\ dataset = "balance" =>
                /\ result.rows[k].year_quarter = S(YearText[yr] \o <<"_", "C",
                    "P">>)
                /\ result.rows[k].full_date =
                        S(YearText[yr] \o <<"-", "1", "2", "-", "3", "1">>)
            /\ dataset = "egresos" =>
                /\ result.rows[k].Cuarto = S(<<"C", "P">>)
                /\ result.rows[k].Fecha =
                        S(YearText[yr] \o <<"-", "1", "2", "-", "3", "1">>)

\* an egresos output with records in both sections, for the year 2024
C5_Witness ==
    /\ pc = "done"
    /\ dataset = "egresos"
    /\ yr = 2024
    /\ result.status = "ok"
    /\ \E k \in 1..Len(result.rows) : result.rows[k].Seccion = "I"
    /\ \E k \in 1..Len(result.rows) : result.rows[k].Seccion = "II"

(***************************************************************************)
(* C6, C7, C8: the sections of the egresos sheet                           *)
(***************************************************************************)
EgresosDone == pc = "done" /\ dataset = "egresos"

\* the cell reads, after leading whitespace, 'II.', optional whitespace and
\* 'Gasto Etiquetado'
IsMarkerCell(cell) ==
    /\ cell.kind = "str"
    /\ LET t == cell.text
           a == SkipSpace(t, 1)
           b == SkipSpace(t, a + 3)
       IN  /\ a + 2 <= Len(t)
           /\ SubSeq(t, a, a + 2) = <<"I", "I", ".">>
           /\ b + 15 <= Len(t)
           /\ SubSeq(t, b, b + 15) = HeaderII.Gasto_Etiquetado

\* rows count from 0, as in the claims
MarkerRows == {r \in 0..(Len(grid) - 1) : IsMarkerCell(grid[r + 1][2])}

MarkerRow ==
    CHOOSE m \in 0..(Len(grid) - 1) :
        /\ IsMarkerCell(grid[m + 1][2])
        /\ \A q \in 0..(m - 1) : ~IsMarkerCell(grid[q + 1][2])

\* the record holds the cells of columns 1..7 of grid row r
FromRow(rec, r) == \A j \in 1..7 : rec[columnas[j]] = grid[r + 1][j + 1]

CodeOfRow(r) == extract_codigo(grid[r + 1][2])

\* every record of Section I comes from a row r with 8 <= r < m, and every
\* code found in those rows has a record in Section I, whatever lies between
SectionIFromItsRows ==
    /\ \A k \in 1..Len(result.rows) :
        result.rows[k].Seccion = "I" =>
            \E r \in 8..(MarkerRow - 1) : FromRow(result.rows[k], r)
    /\ \A r \in 8..(MarkerRow - 1) :
        ~isna(CodeOfRow(r)) =>
            \E k \in 1..Len(result.rows) :
                /\ result.rows[k].Seccion = "I"
                /\ result.rows[k].Codigo = CodeOfRow(r)

NoRecordOfTheMarker ==
    \A k \in 1..Len(result.rows) : ~IsMarkerCell(result.rows[k].Concepto)

C7_MissingMarkerIsFatal ==
    (EgresosDone /\ grid # <<>> /\ MarkerRows = {}) =>
        /\ result.status = "raise"
        /\ result.rows = <<>>

\* no marker, and a line item at row 8 or below that Section I would hold
C7_Witness ==
    /\ EgresosDone
    /\ MarkerRows = {}
    /\ \E r \in 8..(Len(grid) - 1) : ~isna(CodeOfRow(r))
    /\ \E r \in 8..(Len(grid) - 1) :
            grid[r + 1][2] = S(EgresosTxt.I_Gasto_No_Etiquetado)
    /\ result.status = "raise"

ReadsBlank(r) == Strip(PyStr(grid[r + 1][2])) = <<>>

\* Section II ends before the first row after the marker row m whose column 1
\* reads blank
SectionIIEnd(m) ==
    IF \E r \in (m + 1)..(Len(grid) - 1) : ReadsBlank(r)
    THEN CHOOSE r \in (m + 1)..(Len(grid) - 1) :
            ReadsBlank(r) /\ \A q \in (m + 1)..(r - 1) : ~ReadsBlank(q)
    ELSE Len(grid)

SectionIRows(m) == 8..(m - 1)

SectionIIRows(m) == (m + 1)..(SectionIIEnd(m) - 1)

\* the code of every grid row, by row number
GridCodes == [r \in 0..(Len(grid) - 1) |-> CodeOfRow(r)]

\* codes[r] is the code of row r; rows_I and rows_II are the rows of the
\* two sections
DedupIn(codes, rows_I, rows_II) ==
    LET rowsOf(seccion) == IF seccion = "I" THEN rows_I ELSE rows_II IN
    /\ \A k \in 1..Len(result.rows) :
        LET rec == result.rows[k] IN
        /\ rec.Codigo.kind = "str"
        /\ rec.Codigo.text[1] \in AsciiUpper
        /\ \E r \in rowsOf(rec.Seccion) :
            /\ codes[r] = rec.Codigo
            /\ FromRow(rec, r)
            /\ \A q \in rowsOf(rec.Seccion) : codes[q] = rec.Codigo => r <= q
        /\ \A q \in 1..Len(result.rows) :
            (/\ result.rows[q].Seccion = rec.Seccion
             /\ result.rows[q].Codigo = rec.Codigo) => q = k
    /\ \A seccion \in {"I", "II"} : \A r \in rowsOf(seccion) :
        ~isna(codes[r]) =>
            \E k \in 1..Len(result.rows) :
                /\ result.rows[k].Seccion = seccion
                /\ result.rows[k].Codigo = codes[r]

\* C8: in each section of the egresos output, every code found in the
\* section's rows (its letter in upper case) has exactly one record, built
\* from the first of those rows with that code; records without a code do
\* not occur; a code found in both sections has a record in each.
C8_DedupPerSection ==
    (EgresosDone /\ result.status = "ok" /\ grid # <<>>) =>
        DedupIn(GridCodes, SectionIRows(MarkerRow), SectionIIRows(MarkerRow))

\* 'A1) Servicios' and ' a1) otros' in Section I, 'A1) Servicios' again in
\* Section II: one record A1 in each section, the first one from Servicios
C8_Witness ==
    /\ EgresosDone
    /\ result.status = "ok"
    /\ Len(grid) = 12
    /\ grid[9][2] = S(EgresosTxt.A1_Servicios)
    /\ grid[10][2] = S(EgresosTxt.a1_otros)
    /\ MarkerRow = 10
    /\ grid[12][2] = S(EgresosTxt.A1_Servicios)
    /\ Len(result.rows) = 2
    /\ result.rows[1].Seccion = "I"
    /\ result.rows[1].Concepto = S(EgresosTxt.A1_Servicios)
    /\ result.rows[2].Seccion = "II"

(***************************************************************************)
(* C9, C10: the ingresos transform without a Section II, and with fewer    *)
(* than six amount columns                                                 *)
(***************************************************************************)
IngresosDone == pc = "done" /\ dataset = "ingresos"

\* no cell holds the title or a bare 'II.'
NoSectionII == _find_section_ii_bounds(grid)[1] = NoRow

ConceptoOfRow(r) == S(Strip(PyStr(grid[r + 1][_detect_concept_col(grid) + 1])))

\* C9: on a grid without the title and without a bare 'II.' the ingresos
\* transform returns; every record is tagged 'I' and comes from a grid row r
\* with r >= 7, so a grid of 7 rows or fewer gives no record.
C9_DegradeGracefully ==
    (IngresosDone /\ NoSectionII) =>
        /\ result.status = "ok"
        /\ \A k \in 1..Len(result.rows) :
            /\ result.rows[k].seccion = "I"
            /\ \E r \in 7..(Len(grid) - 1) :
                    result.rows[k].concepto = ConceptoOfRow(r)
        /\ Len(grid) <= 7 => result.rows = <<>>

\* the rows of Section I: row 7 up to the start of Section II or the end
BlockI ==
    LET start_ii == _find_section_ii_bounds(grid)[1]
    IN  SubSeq(grid, 8, IF start_ii # NoRow THEN start_ii ELSE Len(grid))

FewerThanSix ==
    /\ BlockI # <<>>
    /\ Cardinality(QualifyingCols(BlockI, _detect_concept_col(grid))) < AmountRoles

\* C10: when fewer than six columns of the Section I block qualify as
\* amount columns the ingresos transform returns, and the last role, which
\* got no column, is null on every record of the block.
C10_MissingRolesAreNull ==
    (IngresosDone /\ FewerThanSix) =>
        /\ result.status = "ok"
        /\ \A k \in 1..Len(result.rows) :
            result.rows[k].seccion = "I" => result.rows[k].diferencia = None

(***************************************************************************)
(* C11: the amounts of an ingresos record, by column                       *)
(***************************************************************************)
\* column 1 is the concept column the transform detects
ConceptInColumn1 == _detect_concept_col(grid) = 1

NormalizedAmount(cell) == NanToNone(_normalize_then_clean(cell))

\* the record holds the concept of grid row r, the amount of column 2 as
\* estimado and the amount of column 5 as devengado
AmountsOfRow(rec, r) ==
    /\ rec.concepto = S(Strip(PyStr(grid[r + 1][2])))
    /\ rec.estimado = NormalizedAmount(grid[r + 1][3])
    /\ rec.devengado = NormalizedAmount(grid[r + 1][6])

\* C11: on a sheet with the concept in column 1 and the amounts in columns
\* 2..7, blank on most rows or not, the ingresos transform returns, and every
\* record has the normalized amount of its row's column 2 as estimado and
\* that of its row's column 5 as devengado.
C11_AmountsByColumn ==
    (IngresosDone /\ ConceptInColumn1 /\ Len(grid) > 7) =>
        /\ result.status = "ok"
        /\ \A k \in 1..Len(result.rows) :
            \E r \in 7..(Len(grid) - 1) : AmountsOfRow(result.rows[k], r)

(***************************************************************************)
(* C12: the rows the ingresos transform leaves out                         *)
(***************************************************************************)
\* the rows of the two sections, in sheet order: Section I from row 7 up to
\* the Section II title (or the end), Section II from the row after its title
\* up to the financing title (or the end)
ExtractedRows(bounds) ==
    LET end_I == IF bounds[1] # NoRow THEN bounds[1] ELSE Len(grid)
        end_II == IF bounds[2] # NoRow THEN bounds[2] ELSE Len(grid)
        n_I == IF end_I > 7 THEN end_I - 7 ELSE 0
        n_II == IF bounds[1] # NoRow /\ end_II > bounds[1] + 1
                THEN end_II - bounds[1] - 1 ELSE 0
    IN  [i \in 1..n_I |-> [row |-> 6 + i, seccion |-> "I"]]
            \o [i \in 1..n_II |-> [row |-> bounds[1] + i, seccion |-> "II"]]

\* the sheets are 8 columns wide: the six amounts are columns 2..7
AllAmountsNull(r) == \A j \in 3..8 : NormalizedAmount(grid[r + 1][j]) = None

BlankConcept(t) == t \in {<<>>, ConceptLit.nan, ConceptLit.none}

\* (a) a total, (b) the free-disposal title without amounts, (c) a blank
\* concept without amounts
ExcludedText(t, r) ==
    \/ is_total(t)
    \/ ild_mask(t) /\ AllAmountsNull(r)
    \/ BlankConcept(t) /\ AllAmountsNull(r)

ExcludedRow(r) == ExcludedText(ConceptoOfRow(r).text, r)

\* the records are the rows of kept, one for one and in order
RecordsAre(kept) ==
    /\ Len(result.rows) = Len(kept)
    /\ \A k \in 1..Len(kept) :
        /\ result.rows[k].seccion = kept[k].seccion
        /\ result.rows[k].concepto = ConceptoOfRow(kept[k].row)

KeptOf(extracted) ==
    Filter(extracted,
           [i \in 1..Len(extracted) |-> ~ExcludedRow(extracted[i].row)])

\* C12: the ingresos transform returns one record for every row of a
\* section that is not (a) a total, (b) the free-disposal title without
\* amounts or (c) a blank concept without amounts, and no record for a row
\* that is; rows without a code and a free-disposal title with an amount
\* are kept.
C12_ExclusionFilter ==
    (IngresosDone /\ grid # <<>>) =>
        /\ result.status = "ok"
        /\ RecordsAre(KeptOf(ExtractedRows(_find_section_ii_bounds(grid))))

(***************************************************************************)
(* C13: the period of the ingresos records                                 *)
(***************************************************************************)
\* the first of the first 8 rows that spells a date (0 when there is none)
FirstDateRow ==
    IF \E r \in 1..Min(8, Len(grid)) : grid[r] \in DateRows
    THEN CHOOSE r \in 1..Min(8, Len(grid)) :
            grid[r] \in DateRows /\ \A q \in 1..(r - 1) : grid[q] \notin DateRows
    ELSE 0

\* 'al 31 de Marzo de 2023' reads 2023-03-31, 'AL 5 DE ENERO DE 2021' reads
\* 2021-01-05 and 'Del 1 al  01 de Diciembre de 2024' reads 2024-12-01
Txt_2023_03_31 == <<"2", "0", "2", "3", "-", "0", "3", "-", "3", "1">>
Txt_2021_01_05 == <<"2", "0", "2", "1", "-", "0", "1", "-", "0", "5">>
Txt_2024_12_01 == <<"2", "0", "2", "4", "-", "1", "2", "-", "0", "1">>

DateOfRow(row) ==
    IF row = InDateRow THEN Txt_2023_03_31
    ELSE IF row = DateRowUpper THEN Txt_2021_01_05
    ELSE Txt_2024_12_01

ExpectedFecha ==
    IF FirstDateRow # 0 THEN DateOfRow(grid[FirstDateRow])
    ELSE YearText[yr] \o <<"-", "1", "2", "-", "3", "1">>

\* C13: every ingresos record has cuarto 'CP' and, as fecha, the date of the
\* first header row that spells one, or '<year>-12-31' when no header row
\* does.
C13_PeriodOfIngresos ==
    (IngresosDone /\ result.status = "ok") =>
        \A k \in 1..Len(result.rows) :
            /\ result.rows[k].cuarto = S(<<"C", "P">>)
            /\ result.rows[k].fecha = S(ExpectedFecha)

\* a sheet with two dated rows, the first on row 2 in upper case, transformed
\* for the year 2024
C13_Witness ==
    /\ IngresosDone
    /\ result.status = "ok"
    /\ Len(grid) = 10
    /\ grid[3] = DateRowUpper
    /\ grid[6] = InDateRow
    /\ FirstDateRow = 3
    /\ yr = 2024
    /\ Len(result.rows) >= 1
    /\ result.rows[1].fecha = S(Txt_2021_01_05)

(***************************************************************************)
(* C14: two runs of a transform differ in their surrogate keys only        *)
(***************************************************************************)
\* the records without their surrogate keys
Unkeyed(rows) ==
    [i \in 1..Len(rows) |->
        [f \in (DOMAIN rows[i]) \ {"surrogate_key"} |-> rows[i][f]]]

KeysOf(rows) == {rows[i].surrogate_key : i \in 1..Len(rows)}

\* the keys of rows are the tokens drawn from position first of the supply
\* on, one for each row in order: each row has its own, whatever it holds
KeysDrawnFrom(rows, first) ==
    /\ Cardinality(KeysOf(rows)) = Len(rows)
    /\ \A i \in 1..Len(rows) : rows[i].surrogate_key = first + i - 1

RunEnded == pc \in {"done", "rerun"}

ColumnsOfDataset ==
    CASE dataset = "balance" -> empty_cp_cols
      [] dataset = "egresos" -> empty_egresos_cols
      [] dataset = "ingresos" -> empty_raw_cols
      [] OTHER -> {}

\* C15: on an empty grid each of the three transforms returns, for every
\* year, a result of no rows that carries the columns of its dataset, and
\* does not raise; those columns are the fields every record of a
\* non-empty output of that dataset has.
C15_EmptyGridColumns ==
    /\ (RunEnded /\ grid = <<>>) =>
            /\ result.status = "ok"
            /\ result.rows = <<>>
            /\ result.columns = ColumnsOfDataset
    /\ (RunEnded /\ result.rows # <<>>) =>
            \A k \in 1..Len(result.rows) :
                DOMAIN result.rows[k] = ColumnsOfDataset

C15_Witness ==
    /\ pc = "done" /\ dataset = "ingresos" /\ grid = <<>> /\ yr = 2024
    /\ result = EmptyFrame(empty_raw_cols)

(***************************************************************************)
(* C16: the dispatch of load                                               *)
(***************************************************************************)
ValidMethods == {"insert", "upsert", "overwrite"}

\* C16: load rejects a load_method other than insert, upsert and overwrite
\* with an error before any call reaches the client, leaving the table as it
\* was; for a valid method it invokes one client primitive, once, the one
\* the method names.
C16_LoadDispatch ==
    [][pc' = "load" =>
        IF load_method' \in ValidMethods
        THEN calls' = <<load_method'>>
        ELSE /\ calls' = <<>>
             /\ result'.status = "raise"
             /\ result'.error = "ValueError"
             /\ table' = table]_vars

C16_Witness ==
    /\ pc = "load" /\ dataset = "egresos" /\ load_method = "append"
    /\ Len(records) = 2
    /\ table = [k \in {"k1"} |-> [concept |-> "A1", amount |-> 10]]
    /\ calls = <<>>
    /\ result = RaiseFrom("ValueError", "")

(***************************************************************************)
(* C17: failures of the persistence layer                                  *)
(***************************************************************************)
LoadEnded ==
    pc \in {"load", "single_upsert", "bulk_overwrite", "bulk_overwrite_again"}

\* C17: a failure raised by the persistence layer during load, the single
\* upsert or the bulk overwrite reaches the caller as one load-failure error
\* (RuntimeError) that carries the underlying cause; none is swallowed and
\* none goes up as the raw error of the persistence layer.
C17_FailuresAreWrapped ==
    (LoadEnded /\ db_error # "") =>
        /\ result.status = "raise"
        /\ result.error = "RuntimeError"
        /\ result.cause = db_error

(***************************************************************************)
(* C18: upsert by surrogate key                                            *)
(***************************************************************************)
NonKey(rec) == [concept |-> rec.concept, amount |-> rec.amount]

DistinctKeys(B) == Cardinality(KeysIn(B)) = Len(B)

\* C18: after a single upsert of a batch of distinct keys has returned,
\* every record of the batch is in the table with its non-key columns, every
\* row whose key is not in the batch is as it was, and the table has one row
\* for each key of the table and the batch together.
C18_UpsertByKey ==
    [][(pc' = "single_upsert" /\ result'.status = "ok"
            /\ DistinctKeys(records')) =>
        /\ \A i \in 1..Len(records') :
                /\ records'[i].surrogate_key \in DOMAIN table'
                /\ table'[records'[i].surrogate_key] = NonKey(records'[i])
        /\ \A k \in (DOMAIN table) \ KeysIn(records') :
                k \in DOMAIN table' /\ table'[k] = table[k]
        /\ Cardinality(DOMAIN table')
                = Cardinality(DOMAIN table \cup KeysIn(records'))]_vars

C18_Witness ==
    /\ pc = "single_upsert" /\ dataset = "balance" /\ result.status = "ok"
    /\ records = <<[surrogate_key |-> "k2", concept |-> "B1", amount |-> 25],
                   [surrogate_key |-> "k3", concept |-> "A1", amount |-> 10]>>
    /\ DOMAIN table = {"k1", "k2", "k3"}
    /\ table["k1"] = [concept |-> "A1", amount |-> 10]
    /\ table["k2"] = [concept |-> "B1", amount |-> 25]

(***************************************************************************)
(* C19: overwrite                                                          *)
(***************************************************************************)
HoldsExactly(T, B) ==
    /\ DOMAIN T = KeysIn(B)
    /\ \A i \in 1..Len(B) : T[B[i].surrogate_key] = NonKey(B[i])

\* C19: after a bulk overwrite has returned, the table holds the records it
\* was given and no other, whatever it held before; a second overwrite with
\* the same records leaves the same rows.
C19_OverwriteIdempotent ==
    [][/\ (pc' \in {"bulk_overwrite", "bulk_overwrite_again"}
                /\ result'.status = "ok") => HoldsExactly(table', records')
       /\ (pc' = "bulk_overwrite_again" /\ result.status = "ok"
                /\ result'.status = "ok") => table' = table]_vars

C19_Witness ==
    /\ pc = "bulk_overwrite_again" /\ dataset = "ingresos"
    /\ result.status = "ok"
    /\ records = <<[surrogate_key |-> "k1", concept |-> "A1", amount |-> 10],
                   [surrogate_key |-> "k2", concept |-> "B1", amount |-> 25]>>
    /\ DOMAIN table = {"k1", "k2"}

(***************************************************************************)
(* C20: uniqueness in the ingresos output                                  *)
(***************************************************************************)
\* C20: in the result of transform_ingresos_detallado_cp_data no two rows of
\* the same seccion carry the same concept or the same non-null
\* clave_secundaria: a line item the sheet repeats inside a section appears
\* once.
C20_UniquePerSection ==
    (IngresosDone /\ result.status = "ok") =>
        \A i, j \in 1..Len(result.rows) :
            (i # j /\ result.rows[i].seccion = result.rows[j].seccion) =>
                /\ result.rows[i].concepto # result.rows[j].concepto
                /\ result.rows[i].clave_secundaria # None =>
                        result.rows[i].clave_secundaria
                            # result.rows[j].clave_secundaria

(***************************************************************************)
(* C21: the end of Section II of the egresos sheet                         *)
(***************************************************************************)
\* an empty or whitespace-only text cell, or a missing cell
IsBlankCell(cell) ==
    \/ cell.kind \in {"none", "nan"}
    \/ cell.kind = "str" /\ Strip(cell.text) = <<>>

\* the first row after the marker row m whose column 1 is blank, or the
\* number of rows of the grid
FirstBlankAfter(m) ==
    IF \E r \in (m + 1)..(Len(grid) - 1) : IsBlankCell(grid[r + 1][2])
    THEN CHOOSE r \in (m + 1)..(Len(grid) - 1) :
            /\ IsBlankCell(grid[r + 1][2])
            /\ \A q \in (m + 1)..(r - 1) : ~IsBlankCell(grid[q + 1][2])
    ELSE Len(grid)

\* C21: Section II of the egresos sheet ends at the first row after the
\* marker whose column-1 cell is blank (empty or whitespace-only text, or a
\* missing cell): every record of Section II comes from a row between the
\* marker and that row, or from a row up to the end of the grid if no row
\* is blank.
C21_SectionIIEndsAtBlank ==
    (EgresosDone /\ result.status = "ok") =>
        \A k \in 1..Len(result.rows) :
            result.rows[k].Seccion = "II" =>
                \E r \in (MarkerRow + 1)..(FirstBlankAfter(MarkerRow) - 1) :
                    FromRow(result.rows[k], r)

(***************************************************************************)
(* C22: the bounds of Section II of the ingresos sheet                     *)
(***************************************************************************)
\* row r holds, in its first n columns, a cell matching one of the patterns
RowHolds(r, patterns, n) ==
    \E c \in 1..Min(n, NCols(grid)) :
        \E rx \in patterns : rx_search(rx, Strip(PyStr(grid[r + 1][c])))

FirstRowHolding(from, patterns, n) ==
    CHOOSE r \in from..(Len(grid) - 1) :
        /\ RowHolds(r, patterns, n)
        /\ \A q \in from..(r - 1) : ~RowHolds(q, patterns, n)

\* the title row, else the bare 'II.' row, else NoRow
StartOfII ==
    IF \E r \in 0..(Len(grid) - 1) : RowHolds(r, {"rx_ii_title"}, 8)
    THEN FirstRowHolding(0, {"rx_ii_title"}, 8)
    ELSE IF \E r \in 0..(Len(grid) - 1) : RowHolds(r, {"rx_roman_ii"}, 6)
    THEN FirstRowHolding(0, {"rx_roman_ii"}, 6)
    ELSE NoRow

FinancingTitles == {"rx_financ", "rx_financ_short"}

\* the first financing row after the start, else the number of rows
EndOfII ==
    IF \E r \in (StartOfII + 1)..(Len(grid) - 1) : RowHolds(r, FinancingTitles, 8)
    THEN FirstRowHolding(StartOfII + 1, FinancingTitles, 8)
    ELSE Len(grid)

\* C22: Section II of the ingresos sheet starts at the first row holding the
\* title 'Transferencias Federales Etiquetadas' in its first 8 columns, or,
\* only when no row does, at the first row holding a bare 'II.' in its first
\* 6 columns; it ends at the first later row holding the financing title in
\* its first 8 columns, or at the end of the grid.  Records of Section I come
\* from rows 7 up to the start, records of Section II from rows strictly
\* between start and end.
C22_SectionIIBounds ==
    IngresosDone =>
        LET bounds == _find_section_ii_bounds(grid) IN
        /\ bounds[1] = StartOfII
        /\ StartOfII # NoRow =>
                /\ EndOfII = (IF bounds[2] # NoRow THEN bounds[2] ELSE Len(grid))
                /\ result.status = "ok" =>
                    \A k \in 1..Len(result.rows) :
                        \/ /\ result.rows[k].seccion = "I"
                           /\ \E r \in 7..(StartOfII - 1) :
                                result.rows[k].concepto = ConceptoOfRow(r)
                        \/ /\ result.rows[k].seccion = "II"
                           /\ \E r \in (StartOfII + 1)..(EndOfII - 1) :
                                result.rows[k].concepto = ConceptoOfRow(r)

\* a returned frame with a record of Section II, from a sheet whose
\* Section II stops at a financing title before the end of the grid
C22_Witness ==
    /\ IngresosDone
    /\ result.status = "ok"
    /\ StartOfII # NoRow
    /\ \E k \in 1..Len(result.rows) : result.rows[k].seccion = "II"
    /\ EndOfII < Len(grid)

(***************************************************************************)
(* C23: the concept column                                                 *)
(***************************************************************************)
\* the columns searched: the first 16, or all of them
SearchedCols == 0..(Min(16, NCols(grid)) - 1)

\* header-like cells ('A.') plus line-item cells ('a1)') of column c
ScoreOf(c) ==
    Cardinality({r \in 1..Len(grid) :
                    LET t == Strip(PyStr(grid[r][c + 1]))
                    IN  rx_hdr(t) \/ rx_det(t)})

\* C23: the concept column detected is one of the first min(16, ncols)
\* columns, no searched column scores more, every searched column before it
\* scores less, and it is column 0 when no searched column has a match.
C23_ConceptColumn ==
    IngresosDone =>
        LET c == _detect_concept_col(grid) IN
        /\ c \in SearchedCols
        /\ \A q \in SearchedCols : ScoreOf(q) <= ScoreOf(c)
        /\ \A q \in SearchedCols : q < c => ScoreOf(q) < ScoreOf(c)
        /\ (\A q \in SearchedCols : ScoreOf(q) = 0) => c = 0

\* two searched columns tie at the best score and a column past the 16
\* searched holds a concept
C23_Witness ==
    /\ IngresosDone
    /\ \E q \in SearchedCols :
            /\ q > _detect_concept_col(grid)
            /\ ScoreOf(q) = ScoreOf(_detect_concept_col(grid))
            /\ ScoreOf(q) > 0
    /\ ScoreOf(16) > 0

(***************************************************************************)
(* C24: the amount columns of a block                                      *)
(***************************************************************************)
\* the rows of Section I: from row 7 up to the title of Section II or the end
BlockIOf(bounds) ==
    SubSeq(grid, 8, IF bounds[1] # NoRow THEN bounds[1] ELSE Len(grid))

\* the rows of Section II: after its title, up to the financing title or
\* the end
BlockIIOf(bounds) ==
    IF bounds[1] = NoRow THEN <<>>
    ELSE SubSeq(grid, bounds[1] + 2,
                IF bounds[2] # NoRow THEN bounds[2] ELSE Len(grid))

\* of the 10 columns right of column concept_col, those in which one cell in
\* five or more parses to a number after normalization
NumericColsRightOf(blk, concept_col) ==
    {c \in (concept_col + 1)..(concept_col + 10) :
        /\ c < NCols(blk)
        /\ 5 * Cardinality({r \in 1..Len(blk) :
                ~isna(clean_amount(_normalize_amount_for_cp(blk[r][c + 1])))})
                >= Len(blk)}

\* six entries: the first six of the columns in increasing order, then -1
RolesAre(got, numeric) ==
    /\ DOMAIN got = 1..6
    /\ \A k \in 1..6 :
        IF k <= Cardinality(numeric)
        THEN /\ got[k] \in numeric
             /\ Cardinality({x \in numeric : x < got[k]}) = k - 1
        ELSE got[k] = -1

\* the roles found for a block are those of its numeric columns
SixRoles(blk, concept_col) ==
    \A got \in {_detect_amount_cols(blk, concept_col)} :
        \A numeric \in {NumericColsRightOf(blk, concept_col)} :
            RolesAre(got, numeric)

\* C24: for each block the ingresos transform slices, _detect_amount_cols
\* considers only the 10 columns right of the concept column, a column
\* qualifying when at least 20% of the block's cells parse to a number; it
\* returns six entries, the first (up to six) qualifying columns in
\* increasing order for the six roles and then 'no column' markers, a
\* non-qualifying column between qualifying ones being skipped.
C24_AmountColumns ==
    IngresosDone =>
        \A bounds \in {_find_section_ii_bounds(grid)} :
            \A concept_col \in {_detect_concept_col(grid)} :
                \A blk \in {BlockIOf(bounds), BlockIIOf(bounds)} :
                    blk # <<>> => SixRoles(blk, concept_col)

\* a block whose six roles skip a column that does not qualify
C24_Witness ==
    /\ IngresosDone
    /\ BlockI # <<>>
    /\ \E got \in {_detect_amount_cols(BlockI, _detect_concept_col(grid))} :
        /\ got[6] # NoCol
        /\ \E k \in 1..5 : got[k + 1] > got[k] + 1

(***************************************************************************)
(* C25: the code extractors                                                *)
(***************************************************************************)
\* the codes of the period form
PeriodCodes ==
    {<<"A", "1">>, <<"A", "2">>, <<"A", "3">>, <<"B", "1">>, <<"B", "2">>,
     <<"C", "1">>, <<"C", "2">>, <<"E", "1">>, <<"E", "2">>, <<"F", "1">>,
     <<"F", "2">>, <<"G", "1">>, <<"G", "2">>}

\* <<code, text after the period and the whitespace that follows it>>, or
\* <<None, the text>>
SplitAtPeriod(t) ==
    IF \E code \in PeriodCodes : StartsWith(t, code \o <<".">>)
    THEN <<S(SubSeq(t, 1, 2)), S(SubSeq(t, SkipSpace(t, 4), Len(t)))>>
    ELSE <<None, S(t)>>

\* whitespace, one letter, the digits up to position e, then ')'
ParenCodeEnds(t, a, e) ==
    /\ \A i \in 1..(a - 1) : IsSpace(t[i])
    /\ t[a] \in AsciiUpper \cup AsciiLower
    /\ e > a
    /\ \A i \in (a + 1)..e : t[i] \in Digit
    /\ e < Len(t)
    /\ t[e + 1] = ")"

\* the letter in upper case and the digits, or None
ParenCode(t) ==
    IF \E a \in 1..Len(t) : \E e \in 1..Len(t) : ParenCodeEnds(t, a, e)
    THEN LET a == CHOOSE a \in 1..Len(t) :
                    \E e \in 1..Len(t) : ParenCodeEnds(t, a, e)
             e == CHOOSE e \in 1..Len(t) : ParenCodeEnds(t, a, e)
         IN  S(<<UpperChar(t[a])>> \o SubSeq(t, a + 1, e))
    ELSE None

\* C25: for every column-1 cell of a balance grid,
\* extraer_codigo_y_sublabel returns the code and the text after the period
\* and the whitespace that follows it when the text starts with one of the 13
\* codes and a period, and (null, the text) otherwise; for every column-1
\* cell of an egresos grid, extract_codigo returns the upper-cased letter
\* and the digits when the text starts, after optional whitespace, with one
\* letter, one or more digits and ')', and null otherwise.
C25_ExtractorsTotal ==
    pc = "done" =>
        \A r \in 1..Len(grid) :
            /\ dataset = "balance" =>
                    extraer_codigo_y_sublabel(PyStr(grid[r][2]))
                        = SplitAtPeriod(PyStr(grid[r][2]))
            /\ dataset = "egresos" =>
                    extract_codigo(grid[r][2]) = ParenCode(PyStr(grid[r][2]))

(***************************************************************************)
(* C30: the amounts of an egresos record                                   *)
(***************************************************************************)
WideFields ==
    Range(columnas) \cup {"surrogate_key", "Codigo", "Fecha", "Cuarto", "Seccion"}

\* C30: every record of the egresos output has the wide set of fields, and
\* its Concepto and six amounts are the cells of columns 1 and 2..7 of one
\* coded grid row, in that order and as they stand in the grid (no
\* normalization, no parsing); there is at most one record per coded row.
C30_AmountsUntouched ==
    (EgresosDone /\ result.status = "ok" /\ grid # <<>>) =>
        /\ \A k \in 1..Len(result.rows) :
            /\ DOMAIN result.rows[k] = WideFields
            /\ \E r \in 0..(Len(grid) - 1) :
                /\ ~isna(CodeOfRow(r))
                /\ result.rows[k].Codigo = CodeOfRow(r)
                /\ FromRow(result.rows[k], r)
        /\ Len(result.rows)
            <= Cardinality({r \in 0..(Len(grid) - 1) : ~isna(CodeOfRow(r))})

\* a record whose amounts are a text in parentheses, a number and a null,
\* as in the grid
C30_Witness ==
    /\ EgresosDone
    /\ result.status = "ok"
    /\ \E k \in 1..Len(result.rows) :
        /\ result.rows[k].Pagado = None
        /\ result.rows[k].Ampliaciones_Reducciones = Num(5)
    /\ \E k \in 1..Len(result.rows) : result.rows[k].Pagado = Amt.paren50

(***************************************************************************)
(* C26: a year without the marker in the egresos bulk pipeline             *)
(***************************************************************************)
BulkEnded == pc = "end" /\ run.pipeline = "bulk"

\* the transform of the year's file raises
MissingMarker(y) ==
    /\ run.files[y] # <<>>
    /\ transform_egresos_detallado_cp_data(run.files[y], y, 0).status = "raise"

\* the transform of the year's file returns records
YieldsRecords(y) ==
    /\ run.files[y] # <<>>
    /\ transform_egresos_detallado_cp_data(run.files[y], y, 0).rows # <<>>

YearEndOf(y) ==
    S((IF y = 2021 THEN <<"2", "0", "2", "1">> ELSE YearText[y]) \o Txt_1231)

\* C26: when the file of one discovered year has no 'II. Gasto Etiquetado'
\* marker, the run of the egresos bulk pipeline still extracts every other
\* discovered year, and the records of the years that yield some are in the
\* table after the run unless the database failed.
C26_BrokenYearIsSkipped ==
    BulkEnded =>
        \A y \in Range(run.years) : \A z \in Range(run.years) :
            (MissingMarker(y) /\ z # y) =>
                /\ Line("extract", z) \in Range(run.trace)
                /\ (YieldsRecords(z) /\ db_error = "") =>
                        \E k \in DOMAIN table : table[k].Fecha = YearEndOf(z)

(***************************************************************************)
(* C27: the routing of the Lambda handler                                  *)
(***************************************************************************)
HandlerEnded == pc = "end" /\ run.pipeline = "handler"

CPFolders ==
    {"Balance_Presupuestario_CP", "Egresos_Detallado_CP",
     "Ingresos_Detallado_CP"}

\* the folders whose raw prefix starts the decoded key of the first record,
\* when that record is an S3 record
FirstKeyFolders ==
    IF run.event = None THEN {}
    ELSE IF "Records" \notin DOMAIN run.event THEN {}
    ELSE IF run.event.Records = <<>> THEN {}
    ELSE IF DOMAIN run.event.Records[1] # {"eventSource", "key"} THEN {}
    ELSE IF run.event.Records[1].eventSource # "aws:s3" THEN {}
    ELSE {folder \in CPFolders :
            SubSeq(unquote_plus(run.event.Records[1].key) \o
                        <<"", "", "", "", "", "">>, 1, 6)
                = <<"finanzas", "/", folder, "/", "raw", "/">>}

SingleRouteOf(folder) ==
    CASE folder = "Balance_Presupuestario_CP" -> <<"balance_cp_single">>
      [] folder = "Egresos_Detallado_CP" -> <<"egresos_cp_single">>
      [] OTHER -> <<"ingresos_cp_single">>

\* the event carries a 'pipeline' field that is neither null nor empty
FieldGiven ==
    /\ run.event # None
    /\ "pipeline" \in DOMAIN run.event
    /\ run.event.pipeline \notin {None, S(<<>>)}

\* the target by the priority: the key, else the field, else the variable
SelectedTarget ==
    IF FirstKeyFolders # {}
    THEN SingleRouteOf(CHOOSE folder \in FirstKeyFolders : TRUE)
    ELSE IF FieldGiven THEN run.event.pipeline.text
    ELSE IF "PIPELINE_TARGET" \in DOMAIN run.environ
    THEN run.environ.PIPELINE_TARGET
    ELSE <<>>

PipelineOfRoute(name) ==
    CASE name = <<"egresos_cp_single">> -> "egresos_cp_single_pipeline"
      [] name = <<"egresos_cp_bulk">> -> "egresos_cp_bulk_pipeline"
      [] name = <<"ingresos_cp_single">> -> "ingresos_cp_single_pipeline"
      [] name = <<"ingresos_cp_bulk">> -> "ingresos_cp_bulk_pipeline"
      [] name = <<"balance_cp_single">> -> "balance_cp_single_pipeline"
      [] name = <<"balance_cp_bulk">> -> "balance_cp_bulk_pipeline"
      [] OTHER -> ""

\* C27: the handler selects its target by strict priority: the '*_single'
\* route of the CP raw prefix that starts the URL-decoded key of the first
\* S3 record, else the event's 'pipeline' field (a null or empty field
\* counting as not given), else PIPELINE_TARGET; a key that matches no
\* prefix leaves the choice to the field and the variable.  When the
\* selected target is one of the six routes, exactly its pipeline was
\* called, once, and a returned value names the target; otherwise the
\* handler raised ValueError and called no pipeline.  Before the call no
\* pipeline has run.
C27_HandlerRouting ==
    run.pipeline = "handler" =>
        /\ pc = "invoke" => run.ran = <<>>
        /\ Cardinality(FirstKeyFolders) <= 1
        /\ pc = "end" =>
            IF PipelineOfRoute(SelectedTarget) # ""
            THEN /\ run.ran = <<PipelineOfRoute(SelectedTarget)>>
                 /\ result.status = "ok" =>
                        result.rows[1].pipeline = SelectedTarget
            ELSE /\ run.ran = <<>>
                 /\ result = Raise("ValueError")

\* an S3 notification with an escaped key under the egresos raw prefix, an
\* event field and an environment variable that name other routes: the
\* egresos single pipeline ran, once, and the handler returned
C27_Witness ==
    /\ HandlerEnded
    /\ FirstKeyFolders = {"Egresos_Detallado_CP"}
    /\ run.event.Records[1].key[2] = "%2F"
    /\ FieldGiven
    /\ run.event.pipeline = S(<<"ingresos_cp_single">>)
    /\ "PIPELINE_TARGET" \in DOMAIN run.environ
    /\ run.environ.PIPELINE_TARGET = <<"balance_cp_bulk">>
    /\ run.ran = <<"egresos_cp_single_pipeline">>
    /\ result.status = "ok"

LinesOf(op) == {i \in 1..Len(run.trace) : run.trace[i].op = op}

\* the records each discovered year gives, in year order, without keys
PerYearRecords ==
    Concat([p \in 1..Len(run.years) |->
                IF run.files[run.years[p]] = <<>> THEN <<>>
                ELSE Unkeyed(transform_egresos_detallado_cp_data(
                                run.files[run.years[p]], run.years[p], 0).rows)])

\* C29: in the egresos bulk pipeline the years are extracted in ascending
\* order and a year is transformed right after its extraction; after the
\* extraction of an empty file the next year is extracted; the load is
\* called at most once, after every discovered year was extracted, with
\* the records of the years in year order; a run without a discovered year
\* or without a record from any year raises without calling the load and
\* leaves the table as it was.
C29_BulkOrdering ==
    run.pipeline = "bulk" =>
        /\ \A i \in LinesOf("extract") : \A j \in LinesOf("extract") :
                i < j => run.trace[i].year < run.trace[j].year
        /\ \A i \in LinesOf("transform") :
                i > 1 /\ run.trace[i - 1] = Line("extract", run.trace[i].year)
        /\ pc = "end" =>
                \A p \in 1..(Len(run.years) - 1) :
                    (/\ Line("extract", run.years[p]) \in Range(run.trace)
                     /\ run.files[run.years[p]] = <<>>) =>
                        Line("extract", run.years[p + 1]) \in Range(run.trace)
        /\ Cardinality(LinesOf("load")) <= 1
        /\ \A i \in LinesOf("load") :
                /\ i = Len(run.trace)
                /\ \A y \in Range(run.listing) :
                        Line("extract", y) \in Range(run.trace)
                /\ Unkeyed(records) = PerYearRecords
                /\ Cardinality(KeysOf(records)) = Len(records)
        /\ (pc = "end" /\ (run.years = <<>> \/ run.parts = <<>>)) =>
                /\ LinesOf("load") = {}
                /\ result.status = "raise"
                /\ table = run.table0

\* a listing out of order, the earlier year empty and skipped, the later
\* year loaded
C29_Witness ==
    /\ BulkEnded
    /\ run.listing = <<2024, 2020>>
    /\ run.files[2020] = <<>>
    /\ run.trace = <<Line("extract", 2020), Line("extract", 2024),
                     Line("transform", 2024), Line("load", 0)>>
    /\ result.status = "ok"
    /\ DOMAIN table = KeysOf(records)

====
